---- MODULE Spec2Model ----
(***************************************************************************)
(* Model of the transcriber repository: the server-side pipeline           *)
(* (TranscriptionController, WhisperTranscriptionService,                  *)
(* AudioConversionService, GeminiCleanupService) and the client-side       *)
(* recorders (AudioRecorder, RecordingService).                            *)
(***************************************************************************)
EXTENDS Integers, Sequences, FiniteSets, TLC

(***************************************************************************)
(* Bounds                                                                  *)
(***************************************************************************)
\* longest text (engine reply, transcript, request text) that is enumerated
MaxLen == 2
\* largest value of the millisecond clock read by Date.now()
MaxClock == 1
\* number of distinct random suffixes Math.random() can yield
NRand == 2
\* number of timeslice dataavailable events one MediaRecorder produces
MaxChunks == 1
\* largest value of recordingTime the one-second timer counts up to
MaxTime == 1

\* object URLs one FileUploadService creates
MaxUrls == 2

\* processing requests one Transcriber view makes
MaxReqs == 2

(***************************************************************************)
(* Texts: strings are sequences of characters                              *)
(***************************************************************************)
Chars == {" ", "a"}

Texts == UNION {[1..n -> Chars] : n \in 0..MaxLen}

RECURSIVE TrimStart(_)
TrimStart(s) == IF s # <<>> /\ Head(s) = " " THEN TrimStart(Tail(s)) ELSE s

RECURSIVE TrimEnd(_)
TrimEnd(s) ==
    IF s # <<>> /\ s[Len(s)] = " " THEN TrimEnd(SubSeq(s, 1, Len(s) - 1)) ELSE s

\* String.prototype.trim
Trim(s) == TrimEnd(TrimStart(s))

\* index of the last "." of a name that is followed by at least one
\* character and no further ".", or 0: the match of /\.[^.]+$/
ExtDot(name) ==
    LET dots == {i \in 1..Len(name) : name[i] = "."}
    IN  IF dots = {} THEN 0
        ELSE LET d == CHOOSE i \in dots : \A j \in dots : j <= i
             IN  IF d < Len(name) THEN d ELSE 0

\* originalname.replace(/\.[^.]+$/, '.mp3')
ReplaceExt(name) ==
    IF ExtDot(name) = 0 THEN name
    ELSE SubSeq(name, 1, ExtDot(name) - 1) \o <<".", "m", "p", "3">>

FileNames == { <<"t", ".", "w">>, <<"t">> }

NoFile == [present |-> FALSE]
UploadedFiles == {[present |-> TRUE, originalname |-> n] : n \in FileNames}

(***************************************************************************)
(* Values exchanged with the external engines                              *)
(***************************************************************************)
HttpStatuses == {200, 422, 500}
ContentTypes == {"application/json", "text/plain"}
TransportMsgs == {"fetch failed"}
FfmpegMsgs == {"ffmpeg exited with code 1"}
Modes == {"cleanup", "intelligent"}
\* position of each cleanup call in the array given to Promise.all
ModeIndex == [cleanup |-> 1, intelligent |-> 2]

\* request bodies of /cleanup-text: text missing, not a string, or a string
BodyTexts ==
    {[type |-> "undefined", val |-> <<>>], [type |-> "number", val |-> <<>>]}
    \cup {[type |-> "string", val |-> t] : t \in Texts}

(***************************************************************************)
(* Temporary files                                                         *)
(***************************************************************************)
Clock == 0..MaxClock
Rands == 1..NRand
InputPaths == {<<"input", t, r>> : t \in Clock, r \in Rands}
OutputPaths == {<<"output", t, r, ".mp3">> : t \in Clock, r \in Rands}
AllPaths == InputPaths \cup OutputPaths
\* the two concurrent convertToMp3 invocations; a request uses the first
Convs == {1, 2}
NoPath == <<>>

VARIABLES
    \* ---- TranscriptionController: one request
    pc,          \* position of the handler: idle, routed, probing, transcribing,
                 \* cleaning, done
    reqKind,     \* "none", "health", "transcribe" or "cleanupText"
    reqFile,     \* the audio part of the request, req.file once accepted
    reqBody,     \* req.body.text of a /cleanup-text request
    original,    \* rawTranscription / text that is handed to the cleanup calls
    wsvc,        \* the request's call on WhisperTranscriptionService
    cu,          \* the two cleanup calls, by mode
    pall,        \* the Promise.all over the two cleanup promises
    responses,   \* res.status(..).json(..) calls, in order
    settleOrder, \* modes in the order their promises settled
    \* ---- AudioConversionService
    conv,        \* convertToMp3 invocations
    files,       \* tmpdir: path -> invocation that wrote it, 0 when absent
    now,         \* Date.now()
    interfered   \* an invocation read, overwrote or deleted another's file

    ,
    \* ---- browser: media devices and MediaRecorder objects
    hasMediaDevices, \* navigator.mediaDevices.getUserMedia exists
    supported,       \* types for which MediaRecorder.isTypeSupported is true
    reportsMime,     \* whether MediaRecorder.mimeType is set by the device
    sstate,          \* stream k: "none", "live" or "stopped" (its tracks)
    rstate,          \* MediaRecorder k .state: "none", "recording", "inactive"
    rmime,           \* MediaRecorder k .mimeType
    evq,             \* events queued for dispatch, in order
    produced,        \* MediaRecorder k: number of blobs produced so far
    onstopH,         \* MediaRecorder k .onstop: "default" or "resolver"
    delivered,       \* MediaRecorder k: blobs its dataavailable events carried
    \* ---- AudioRecorder
    ar_mediaRecorder, \* this.mediaRecorder, 0 for null
    ar_audioChunks,   \* this.audioChunks
    ar_stream,        \* this.stream, 0 for null
    ar_state,         \* state signal
    ar_error,         \* error signal, <<>> for null
    ar_calls,         \* startRecording calls made
    ar_pending,       \* startRecording calls awaiting getUserMedia
    ar_ret,           \* what the last stopRecording call returned
    ar_promise,       \* promise returned by stopRecording for recorder k
    ar_blob,          \* value that promise resolved with
    ar_stopSeq,       \* parity of the stopRecording calls made by the user
    \* ---- RecordingService
    rs_mediaRecorder, \* this.mediaRecorder, 0 for null
    rs_audioChunks,   \* this.audioChunks
    rs_timerInterval, \* this.timerInterval, 0 for null
    rs_recordingTime, \* recordingTime signal
    rs_audioBlob,     \* audioBlob signal: <<>> for null, else <<blob>>
    rs_audioUrl,      \* audioUrl signal: 0 for '', else the object URL
    rs_error,         \* message of the error the last startRecording threw
    rs_calls,         \* startRecording calls made
    rs_pending,       \* startRecording calls awaiting getUserMedia
    rs_recorders,     \* MediaRecorder objects created by initializeRecorder
    rs_lastOp,        \* last method called by the user
    rs_opSeq,         \* parity of the method calls made by the user
    intervals,        \* window: active setInterval timers
    urls,             \* URL: object URLs created and not revoked
    \* ---- server process
    boot              \* the startup sequence of index.ts

VARIABLES
    \* ---- FileUploadService
    fu_uploadedFile,    \* uploadedFile signal: <<>> for null, else <<file>>
    fu_uploadedFileUrl, \* uploadedFileUrl signal: 0 for '', else the object URL
    fu_created,         \* URL.createObjectURL calls made by the service
    fu_urls,            \* object URLs the service created and did not revoke
    fu_last,            \* last validateAndSetFile call: its file and result
    \* ---- Transcriber component
    tc_currentState,    \* currentState signal
    tc_textInput,       \* textInput signal
    tc_isProcessing,    \* isProcessing signal
    tc_inputText,       \* inputText signal
    tc_outputText,      \* outputText signal
    tc_intelligentText, \* intelligentText signal
    tc_activeTab,       \* activeTab signal
    tc_reqs             \* subscriptions made by processWithTranscription

pipeVars == <<pc, reqKind, reqFile, reqBody, original, wsvc, cu, pall, responses, settleOrder>>
convVars == <<conv, files, now, interfered>>
browserVars == <<hasMediaDevices, supported, reportsMime, sstate, rstate, rmime,
                 evq, produced, onstopH, delivered>>
arVars == <<ar_mediaRecorder, ar_audioChunks, ar_stream, ar_state, ar_error,
            ar_calls, ar_pending, ar_ret, ar_promise, ar_blob>>
rsVars == <<rs_mediaRecorder, rs_audioChunks, rs_timerInterval, rs_recordingTime,
            rs_audioBlob, rs_audioUrl, rs_error, rs_calls, rs_pending,
            rs_recorders, rs_lastOp, rs_opSeq, intervals, urls>>
recVars == <<browserVars, arVars, ar_stopSeq, rsVars>>
fuVars == <<fu_uploadedFile, fu_uploadedFileUrl, fu_created, fu_urls, fu_last>>
tcVars == <<tc_currentState, tc_textInput, tc_isProcessing, tc_inputText,
            tc_outputText, tc_intelligentText, tc_activeTab, tc_reqs>>
pageVars == <<fuVars, tcVars>>
vars == <<pipeVars, convVars, recVars, boot, pageVars>>

(***************************************************************************)
(* AudioConversionService.convertToMp3 (temp-file implementation)          *)
(***************************************************************************)
TempInputPath(t, r) == <<"input", t, r>>

TempOutputPath(t, r) == <<"output", t, r, ".mp3">>

IdleConv ==
    [pc |-> "idle", inPath |-> NoPath, outPath |-> NoPath,
     file |-> NoFile, err |-> <<>>, readFrom |-> 0]

\* fs.unlink(path).catch(() => {}): removes the file, ENOENT is swallowed
Unlink(fs, p) == [fs EXCEPT ![p] = 0]

\* invocation i touches path p: TRUE when the file there was written by
\* another invocation
Foreign(i, p) == files[p] # 0 /\ files[p] # i

\* entry of convertToMp3 up to the first await: both temp paths are computed
\* and writeFile(tempInputPath, file.buffer) is issued
ConvBegin(i, f) ==
    /\ conv[i].pc = "idle"
    /\ \E rIn \in Rands, rOut \in Rands :
          conv' = [conv EXCEPT ![i] =
                     [pc |-> "writing",
                      inPath |-> TempInputPath(now, rIn),
                      outPath |-> TempOutputPath(now, rOut),
                      file |-> f, err |-> <<>>, readFrom |-> 0]]

\* writeFile succeeded; the promise executor runs and ffmpeg(...).save(out)
\* starts the transcoder
WriteFileOk(i) ==
    /\ conv[i].pc = "writing"
    /\ files' = [files EXCEPT ![conv[i].inPath] = i]
    /\ interfered' = (interfered \/ Foreign(i, conv[i].inPath))
    /\ conv' = [conv EXCEPT ![i].pc = "transcoding"]
    /\ UNCHANGED now

\* writeFile failed, having created (part of) the file or not
WriteFileFail(i) ==
    /\ conv[i].pc = "writing"
    /\ \E partial \in BOOLEAN :
          /\ files' = IF partial THEN [files EXCEPT ![conv[i].inPath] = i] ELSE files
          /\ interfered' = (interfered \/ (partial /\ Foreign(i, conv[i].inPath)))
    /\ conv' = [conv EXCEPT ![i].pc = "prepUnlink"]
    /\ UNCHANGED now

\* catch of the staging failure: unlink the input, then throw
PrepUnlink(i) ==
    /\ conv[i].pc = "prepUnlink"
    /\ files' = Unlink(files, conv[i].inPath)
    /\ interfered' = (interfered \/ Foreign(i, conv[i].inPath))
    /\ conv' = [conv EXCEPT ![i].pc = "rejected",
                             ![i].err = <<"Failed to prepare audio file for conversion">>]
    /\ UNCHANGED now

\* the transcoder read the input, wrote the output and emitted 'end';
\* the handler issues readFile(tempOutputPath)
FfmpegEnd(i) ==
    /\ conv[i].pc = "transcoding"
    /\ files[conv[i].inPath] # 0
    /\ files' = [files EXCEPT ![conv[i].outPath] = i]
    /\ interfered' = (interfered \/ Foreign(i, conv[i].inPath)
                                 \/ Foreign(i, conv[i].outPath))
    /\ conv' = [conv EXCEPT ![i].pc = "reading"]
    /\ UNCHANGED now

\* the transcoder emitted 'error'; it may have started writing the output
\* when it could open the input
FfmpegError(i) ==
    /\ conv[i].pc = "transcoding"
    /\ \E msg \in FfmpegMsgs, wroteOut \in BOOLEAN :
          /\ wroteOut => files[conv[i].inPath] # 0
          /\ files' = IF wroteOut THEN [files EXCEPT ![conv[i].outPath] = i] ELSE files
          /\ interfered' = (interfered
                              \/ (files[conv[i].inPath] # 0 /\ Foreign(i, conv[i].inPath))
                              \/ (wroteOut /\ Foreign(i, conv[i].outPath)))
          /\ conv' = [conv EXCEPT ![i].pc = "errUnlinkIn",
                                   ![i].err = <<"Audio conversion failed: ", msg>>]
    /\ UNCHANGED now

\* 'error' handler: await unlink(tempInputPath)
ErrUnlinkIn(i) ==
    /\ conv[i].pc = "errUnlinkIn"
    /\ files' = Unlink(files, conv[i].inPath)
    /\ interfered' = (interfered \/ Foreign(i, conv[i].inPath))
    /\ conv' = [conv EXCEPT ![i].pc = "errUnlinkOut"]
    /\ UNCHANGED now

\* faulty variant: the 'error' handler rejects without removing the output
ErrRejectKeepingOutput(i) ==
    /\ conv[i].pc = "errUnlinkOut"
    /\ conv' = [conv EXCEPT ![i].pc = "rejected"]
    /\ UNCHANGED <<files, now, interfered>>

\* 'error' handler: await unlink(tempOutputPath); reject(...)
ErrUnlinkOut(i) ==
    /\ conv[i].pc = "errUnlinkOut"
    /\ files' = Unlink(files, conv[i].outPath)
    /\ interfered' = (interfered \/ Foreign(i, conv[i].outPath))
    /\ conv' = [conv EXCEPT ![i].pc = "rejected"]
    /\ UNCHANGED now

\* 'end' handler: readFile(tempOutputPath) succeeded
ReadFileOk(i) ==
    /\ conv[i].pc = "reading"
    /\ files[conv[i].outPath] # 0
    /\ interfered' = (interfered \/ Foreign(i, conv[i].outPath))
    /\ conv' = [conv EXCEPT ![i].pc = "endUnlinkIn",
                             ![i].readFrom = files[conv[i].outPath]]
    /\ UNCHANGED <<files, now>>

\* 'end' handler: readFile(tempOutputPath) failed
ReadFileFail(i) ==
    /\ conv[i].pc = "reading"
    /\ conv' = [conv EXCEPT ![i].pc = "rdUnlinkIn"]
    /\ UNCHANGED <<files, now, interfered>>

\* 'end' handler, success branch: await unlink(tempInputPath)
EndUnlinkIn(i) ==
    /\ conv[i].pc = "endUnlinkIn"
    /\ files' = Unlink(files, conv[i].inPath)
    /\ interfered' = (interfered \/ Foreign(i, conv[i].inPath))
    /\ conv' = [conv EXCEPT ![i].pc = "endUnlinkOut"]
    /\ UNCHANGED now

\* 'end' handler, success branch: await unlink(tempOutputPath); resolve(...)
EndUnlinkOut(i) ==
    /\ conv[i].pc = "endUnlinkOut"
    /\ files' = Unlink(files, conv[i].outPath)
    /\ interfered' = (interfered \/ Foreign(i, conv[i].outPath))
    /\ conv' = [conv EXCEPT ![i].pc = "resolved"]
    /\ UNCHANGED now

\* 'end' handler, catch branch: await unlink(tempInputPath)
RdUnlinkIn(i) ==
    /\ conv[i].pc = "rdUnlinkIn"
    /\ files' = Unlink(files, conv[i].inPath)
    /\ interfered' = (interfered \/ Foreign(i, conv[i].inPath))
    /\ conv' = [conv EXCEPT ![i].pc = "rdUnlinkOut"]
    /\ UNCHANGED now

\* faulty variant: the read-back failure is reported as a conversion error
RdUnlinkOutAsConversionError(i) ==
    /\ conv[i].pc = "rdUnlinkOut"
    /\ files' = Unlink(files, conv[i].outPath)
    /\ interfered' = (interfered \/ Foreign(i, conv[i].outPath))
    /\ conv' = [conv EXCEPT ![i].pc = "rejected",
                             ![i].err = <<"Audio conversion failed: ", "read failed">>]
    /\ UNCHANGED now

\* 'end' handler, catch branch: await unlink(tempOutputPath); reject(...)
RdUnlinkOut(i) ==
    /\ conv[i].pc = "rdUnlinkOut"
    /\ files' = Unlink(files, conv[i].outPath)
    /\ interfered' = (interfered \/ Foreign(i, conv[i].outPath))
    /\ conv' = [conv EXCEPT ![i].pc = "rejected",
                             ![i].err = <<"Failed to read converted audio file">>]
    /\ UNCHANGED now

\* the value convertToMp3 resolves with
ConvertedAudio(i) ==
    [buffer |-> conv[i].readFrom, mimetype |-> "audio/mpeg",
     originalname |-> ReplaceExt(conv[i].file.originalname)]

\* the millisecond clock advances
Tick ==
    /\ now < MaxClock
    /\ now' = now + 1
    /\ UNCHANGED <<conv, files, interfered>>

\* the file the direct callers of convertToMp3 pass
ConvCallFiles == {[present |-> TRUE, originalname |-> <<"t", ".", "w">>]}

\* a caller invokes convertToMp3(file)
ConvCall(i) ==
    /\ \E f \in ConvCallFiles : ConvBegin(i, f)
    /\ UNCHANGED <<files, now, interfered>>

ConvStep(i) ==
    \/ WriteFileOk(i)
    \/ WriteFileFail(i)
    \/ PrepUnlink(i)
    \/ FfmpegEnd(i)
    \/ FfmpegError(i)
    \/ ErrUnlinkIn(i)
    \/ ErrUnlinkOut(i)
    \/ ReadFileOk(i)
    \/ ReadFileFail(i)
    \/ EndUnlinkIn(i)
    \/ EndUnlinkOut(i)
    \/ RdUnlinkIn(i)
    \/ RdUnlinkOut(i)

ConvInit ==
    /\ conv = [i \in Convs |-> IdleConv]
    /\ files = [p \in AllPaths |-> 0]
    /\ now = 0
    /\ interfered = FALSE

(***************************************************************************)
(* WhisperTranscriptionService.transcribe                                  *)
(***************************************************************************)
\* the calls a request makes on the service: st is the position of the call,
\* posts counts the POSTs of transcribe, reply is what fetch settled with,
\* probes counts the POSTs of checkAvailability, avail is what it returned
IdleWhisper ==
    [st |-> "none", result |-> <<>>, err |-> <<>>, posts |-> 0, form |-> <<>>,
     reply |-> <<>>, probes |-> 0, avail |-> "none"]

\* what fetch settled with: a response, or a rejection with a message
HttpReply(status, ctype, hasText, body) ==
    [transportOk |-> TRUE, status |-> status, ctype |-> ctype,
     hasText |-> hasText, body |-> body]

TransportFailure(msg) ==
    [transportOk |-> FALSE, status |-> 0, ctype |-> "", hasText |-> FALSE,
     body |-> <<msg>>]

\* response.ok
IsOk(status) == status >= 200 /\ status <= 299

\* faulty variant: the text is returned as extracted, without trim()
TranscribeOutcomeUntrimmed(status, ctype, hasText, body) ==
    IF ~IsOk(status)
    THEN [ok |-> FALSE, text |-> <<>>,
          err |-> <<"Whisper API error: ", ToString(status), " ">> \o body]
    ELSE LET transcription ==
                 IF ctype = "application/json"
                 THEN (IF hasText THEN body ELSE <<>>)
                 ELSE body
         IN  IF transcription = <<>>
             THEN [ok |-> FALSE, text |-> <<>>,
                   err |-> <<"Empty transcription result from Whisper">>]
             ELSE [ok |-> TRUE, text |-> transcription, err |-> <<>>]

\* what transcribe does with the engine's reply: the text it returns or the
\* message of the error it throws
TranscribeOutcome(status, ctype, hasText, body) ==
    IF ~IsOk(status)
    THEN [ok |-> FALSE, text |-> <<>>,
          err |-> <<"Whisper API error: ", ToString(status), " ">> \o body]
    ELSE LET transcription ==
                 IF ctype = "application/json"
                 THEN (IF hasText THEN body ELSE <<>>)
                 ELSE body
         IN  IF transcription = <<>> \/ Len(Trim(transcription)) = 0
             THEN [ok |-> FALSE, text |-> <<>>,
                   err |-> <<"Empty transcription result from Whisper">>]
             ELSE [ok |-> TRUE, text |-> Trim(transcription), err |-> <<>>]

\* faulty variant: the POST is issued without awaiting convertToMp3
TranscribeWithoutAwait ==
    /\ wsvc.st = "converting"
    /\ conv[1].pc # "idle"
    /\ wsvc' = [wsvc EXCEPT !.st = "posting", !.posts = @ + 1]
    /\ UNCHANGED <<pc, reqKind, reqFile, reqBody, original, cu, pall, responses, settleOrder>>
    /\ UNCHANGED convVars

\* faulty variant: the catch block replaces the conversion error
TranscribeWrappingConversionError ==
    /\ wsvc.st = "converting"
    /\ conv[1].pc \in {"resolved", "rejected"}
    /\ wsvc' = IF conv[1].pc = "rejected"
               THEN [wsvc EXCEPT !.st = "threw",
                                 !.err = <<"Whisper transcription failed">>]
               ELSE [wsvc EXCEPT !.st = "posting", !.posts = @ + 1,
                                 !.form = <<[audio_file |-> ConvertedAudio(1),
                                            task |-> "transcribe",
                                            output |-> "txt"]>>]
    /\ UNCHANGED <<pc, reqKind, reqFile, reqBody, original, cu, pall, responses, settleOrder>>
    /\ UNCHANGED convVars

\* convertToMp3 settled: a rejection is rethrown by the catch block, a
\* result is wrapped into the form and the POST to /asr is issued
TranscribeAfterConvert ==
    /\ wsvc.st = "converting"
    /\ conv[1].pc \in {"resolved", "rejected"}
    /\ wsvc' = IF conv[1].pc = "rejected"
               THEN [wsvc EXCEPT !.st = "threw", !.err = conv[1].err]
               ELSE [wsvc EXCEPT !.st = "posting", !.posts = @ + 1,
                                 !.form = <<[audio_file |-> ConvertedAudio(1),
                                            task |-> "transcribe",
                                            output |-> "txt"]>>]
    /\ UNCHANGED <<pc, reqKind, reqFile, reqBody, original, cu, pall, responses, settleOrder>>
    /\ UNCHANGED convVars

\* the engine replied to the POST
WhisperReply ==
    /\ wsvc.st = "posting"
    /\ \E status \in HttpStatuses, ctype \in ContentTypes,
          hasText \in BOOLEAN, body \in Texts :
          LET o == TranscribeOutcome(status, ctype, hasText, body)
              r == <<HttpReply(status, ctype, hasText, body)>>
          IN  wsvc' = IF o.ok
                      THEN [wsvc EXCEPT !.st = "returned", !.result = o.text,
                                        !.reply = r]
                      ELSE [wsvc EXCEPT !.st = "threw", !.err = o.err,
                                        !.reply = r]
    /\ UNCHANGED <<pc, reqKind, reqFile, reqBody, original, cu, pall, responses, settleOrder>>
    /\ UNCHANGED convVars

\* faulty variant: a rejected fetch is attempted a second time
WhisperTransportRetry ==
    /\ wsvc.st = "posting"
    /\ \E msg \in TransportMsgs :
          wsvc' = IF wsvc.posts < 2
                  THEN [wsvc EXCEPT !.posts = @ + 1]
                  ELSE [wsvc EXCEPT !.st = "threw", !.err = <<msg>>,
                                    !.reply = <<TransportFailure(msg)>>]
    /\ UNCHANGED <<pc, reqKind, reqFile, reqBody, original, cu, pall, responses, settleOrder>>
    /\ UNCHANGED convVars

\* faulty variant: the transport error is wrapped into a new error
WhisperTransportWrapped ==
    /\ wsvc.st = "posting"
    /\ \E msg \in TransportMsgs :
          wsvc' = [wsvc EXCEPT !.st = "threw",
                               !.err = <<"Whisper API error: ", msg>>,
                               !.reply = <<TransportFailure(msg)>>]
    /\ UNCHANGED <<pc, reqKind, reqFile, reqBody, original, cu, pall, responses, settleOrder>>
    /\ UNCHANGED convVars

\* fetch itself rejected: the error is rethrown unchanged
WhisperTransportFail ==
    /\ wsvc.st = "posting"
    /\ \E msg \in TransportMsgs :
          wsvc' = [wsvc EXCEPT !.st = "threw", !.err = <<msg>>,
                               !.reply = <<TransportFailure(msg)>>]
    /\ UNCHANGED <<pc, reqKind, reqFile, reqBody, original, cu, pall, responses, settleOrder>>
    /\ UNCHANGED convVars

(***************************************************************************)
(* WhisperTranscriptionService.checkAvailability                           *)
(***************************************************************************)
\* faulty variant: any success status counts as available
CheckAvailabilityByOk(reply) == reply.transportOk /\ IsOk(reply.status)

\* what checkAvailability returns for what the probe's fetch settled with:
\* response.status === 422, and false from the catch block
CheckAvailabilityOutcome(reply) == reply.transportOk /\ reply.status = 422

\* the engine replied to the body-less probe
ProbeReply ==
    /\ wsvc.st = "probing"
    /\ \E status \in HttpStatuses :
          LET r == HttpReply(status, "", FALSE, <<>>)
          IN  wsvc' = [wsvc EXCEPT !.st = "probed", !.reply = <<r>>,
                                   !.avail = IF CheckAvailabilityOutcome(r)
                                             THEN "true" ELSE "false"]
    /\ UNCHANGED <<pc, reqKind, reqFile, reqBody, original, cu, pall, responses, settleOrder>>
    /\ UNCHANGED convVars

\* the probe's fetch rejected: the catch block returns false
ProbeTransportFail ==
    /\ wsvc.st = "probing"
    /\ \E msg \in TransportMsgs :
          LET r == TransportFailure(msg)
          IN  wsvc' = [wsvc EXCEPT !.st = "probed", !.reply = <<r>>,
                                   !.avail = IF CheckAvailabilityOutcome(r)
                                             THEN "true" ELSE "false"]
    /\ UNCHANGED <<pc, reqKind, reqFile, reqBody, original, cu, pall, responses, settleOrder>>
    /\ UNCHANGED convVars

(***************************************************************************)
(* GeminiCleanupService.processTranscript                                  *)
(***************************************************************************)
\* calls counts the generateContent calls made for the mode, out is what
\* the engine call ended with
IdleCleanup ==
    [st |-> "none", arg |-> <<>>, val |-> <<>>, err |-> <<>>, calls |-> 0,
     out |-> <<>>]

\* how the engine call ended: with an output text, or (engineOk FALSE)
\* with an error whose message is text
EngineOutcome(engineOk, text) == [engineOk |-> engineOk, text |-> text]

\* faulty variant: the engine's output is returned without trim()
ProcessOutcomeUntrimmed(mode, engineOk, text) ==
    IF engineOk /\ Len(text) # 0
    THEN [ok |-> TRUE, val |-> text, err |-> <<>>]
    ELSE [ok |-> FALSE, val |-> <<>>,
          err |-> <<"Failed to ", mode, " transcript with Gemini">>]

\* faulty variant: the message of the caught error is appended
ProcessOutcomeExposingCause(mode, engineOk, text) ==
    IF engineOk /\ Len(Trim(text)) # 0
    THEN [ok |-> TRUE, val |-> Trim(text), err |-> <<>>]
    ELSE [ok |-> FALSE, val |-> <<>>,
          err |-> <<"Failed to ", mode, " transcript with Gemini", ": ">>
                  \o (IF engineOk THEN <<"Empty response from Gemini">> ELSE text)]

\* what processTranscript does with the engine's answer: engineOk is FALSE
\* when generateContent or response.text() threw, text then being the
\* message of the error
ProcessOutcome(mode, engineOk, text) ==
    IF engineOk /\ Len(Trim(text)) # 0
    THEN [ok |-> TRUE, val |-> Trim(text), err |-> <<>>]
    ELSE [ok |-> FALSE, val |-> <<>>,
          err |-> <<"Failed to ", mode, " transcript with Gemini">>]

(***************************************************************************)
(* TranscriptionController                                                 *)
(***************************************************************************)
IdlePromiseAll ==
    [st |-> "none", filled |-> {}, values |-> [k \in 1..2 |-> <<>>], reason |-> <<>>]

Respond(status, body) ==
    responses' = Append(responses, [status |-> status, body |-> body])

\* faulty variant: the second call is made only after the first was awaited
StartCleanupsSequential(raw) ==
    [m \in Modes |->
        [st |-> IF m = "cleanup" THEN "inflight" ELSE "none",
         arg |-> IF m = "cleanup" THEN raw ELSE <<>>, val |-> <<>>, err |-> <<>>,
         calls |-> IF m = "cleanup" THEN 1 ELSE 0, out |-> <<>>]]

\* [cleanupTranscript(raw), intelligentCleanup(raw)]: both calls are made,
\* each runs up to its await of generateContent, before Promise.all awaits
StartCleanups(raw) ==
    [m \in Modes |->
        [st |-> "inflight", arg |-> raw, val |-> <<>>, err |-> <<>>, calls |-> 1,
         out |-> <<>>]]

\* faulty variant: Promise.allSettled, a rejection counts as a result
PromiseAllSettledLike(p, idx, ok, val, err) ==
    IF p.st # "pending" THEN p
    ELSE LET filled == p.filled \cup {idx}
         IN  [p EXCEPT !.filled = filled,
                       !.values[idx] = val,
                       !.st = IF filled = 1..2 THEN "fulfilled" ELSE "pending"]

\* faulty variant: results are collected in completion order
PromiseAllByCompletion(p, idx, ok, val, err) ==
    IF p.st # "pending" THEN p
    ELSE IF ~ok THEN [p EXCEPT !.st = "rejected", !.reason = err]
    ELSE LET pos == Cardinality(p.filled) + 1
             filled == p.filled \cup {pos}
         IN  [p EXCEPT !.filled = filled,
                       !.values[pos] = val,
                       !.st = IF filled = 1..2 THEN "fulfilled" ELSE "pending"]

\* Promise.all reacting to the promise at position idx settling
PromiseAllSettle(p, idx, ok, val, err) ==
    IF p.st # "pending" THEN p
    ELSE IF ~ok THEN [p EXCEPT !.st = "rejected", !.reason = err]
    ELSE LET filled == p.filled \cup {idx}
         IN  [p EXCEPT !.filled = filled,
                       !.values[idx] = val,
                       !.st = IF filled = 1..2 THEN "fulfilled" ELSE "pending"]

\* healthCheck up to await checkAvailability(), which issues the probe
HealthCheck ==
    /\ pc = "idle"
    /\ pc' = "probing"
    /\ reqKind' = "health"
    /\ wsvc' = [wsvc EXCEPT !.st = "probing", !.probes = @ + 1]
    /\ UNCHANGED <<reqFile, reqBody, original, cu, pall, responses, settleOrder>>
    /\ UNCHANGED convVars

\* the body of the health response
HealthBody(available) ==
    [status |-> <<"ok">>, timestamp |-> <<ToString(now)>>,
     services |-> [whisper |-> IF available THEN <<"available">>
                               ELSE <<"unavailable">>,
                   cleanup |-> <<"configured">>]]

\* faulty variant: an unavailable engine fails the health request
HealthCheckFailing ==
    /\ pc = "probing"
    /\ wsvc.st = "probed"
    /\ Respond(IF wsvc.avail = "true" THEN 200 ELSE 503,
               HealthBody(wsvc.avail = "true"))
    /\ pc' = "done"
    /\ UNCHANGED <<reqKind, reqFile, reqBody, original, wsvc, cu, pall, settleOrder>>
    /\ UNCHANGED convVars

\* healthCheck resumes after await checkAvailability()
HealthCheckRespond ==
    /\ pc = "probing"
    /\ wsvc.st = "probed"
    /\ Respond(200, HealthBody(wsvc.avail = "true"))
    /\ pc' = "done"
    /\ UNCHANGED <<reqKind, reqFile, reqBody, original, wsvc, cu, pall, settleOrder>>
    /\ UNCHANGED convVars

\* multer limits.fileSize
MAX_FILE_SIZE == 104857600

\* smallest size validateAudioFile accepts
MIN_FILE_SIZE == 1024

ALLOWED_AUDIO_TYPES ==
    {"audio/wav", "audio/mpeg", "audio/mp3", "audio/webm", "audio/ogg",
     "audio/x-m4a", "audio/mp4", "audio/m4a"}

\* declared types and sizes of the uploads that are enumerated
UploadTypes == {"audio/webm", "video/mp4"}

UploadSizes == {MIN_FILE_SIZE - 1, MIN_FILE_SIZE, MAX_FILE_SIZE + 1}

\* the audio part of a /transcribe request: absent, or a file
Uploads ==
    {NoFile} \cup
    {[present |-> TRUE, originalname |-> n, mimetype |-> t, size |-> z] :
        n \in FileNames, t \in UploadTypes, z \in UploadSizes}

PassUpload == [pass |-> TRUE, error |-> <<>>]

RejectUpload(msg) == [pass |-> FALSE, error |-> msg]

\* faulty variant: validateAudioFile without the minimum size
MiddlewareOutcomeWithoutMinSize(u) ==
    IF ~u.present THEN RejectUpload(<<"No audio file provided">>)
    ELSE IF u.mimetype \notin ALLOWED_AUDIO_TYPES
    THEN RejectUpload(<<"Invalid file type. Allowed types: ", "audio/wav, ...">>)
    ELSE IF u.size > MAX_FILE_SIZE
    THEN RejectUpload(<<"File too large. Maximum size is ", "100", "MB">>)
    ELSE PassUpload

\* upload.single('audio') with its fileFilter and size limit, then
\* handleMulterError, then validateAudioFile: the first one that answers
MiddlewareOutcome(u) ==
    IF ~u.present THEN RejectUpload(<<"No audio file provided">>)
    ELSE IF u.mimetype \notin ALLOWED_AUDIO_TYPES
    THEN RejectUpload(<<"Invalid file type. Allowed types: ", "audio/wav, ...">>)
    ELSE IF u.size > MAX_FILE_SIZE
    THEN RejectUpload(<<"File too large. Maximum size is ", "100", "MB">>)
    ELSE IF u.size < MIN_FILE_SIZE
    THEN RejectUpload(<<"Audio file is too small or corrupted">>)
    ELSE PassUpload

\* the middleware chain in front of transcribeAudio, for the audio part u
RouteUpload(u) ==
    /\ pc = "idle"
    /\ reqFile' = u
    /\ IF MiddlewareOutcome(u).pass
       THEN /\ pc' = "routed"
            /\ UNCHANGED responses
       ELSE /\ Respond(400, [error |-> MiddlewareOutcome(u).error])
            /\ pc' = "done"
    /\ reqKind' = "transcribe"
    /\ UNCHANGED <<reqBody, original, wsvc, cu, pall, settleOrder>>
    /\ UNCHANGED convVars

\* POST /transcribe
TranscribeRoute == \E u \in Uploads : RouteUpload(u)

\* transcribeAudio up to its first await
TranscribeAudio ==
    /\ pc = "routed"
    /\ \E f \in {reqFile} :
          /\ reqFile' = f
          /\ IF ~f.present
             THEN /\ Respond(400, [error |-> <<"No audio file provided">>])
                  /\ pc' = "done"
                  /\ UNCHANGED <<wsvc, conv>>
             ELSE /\ pc' = "transcribing"
                  /\ wsvc' = [wsvc EXCEPT !.st = "converting"]
                  /\ ConvBegin(1, f)
                  /\ UNCHANGED responses
    /\ reqKind' = "transcribe"
    /\ UNCHANGED <<reqBody, original, cu, pall, settleOrder, files, now, interfered>>

\* faulty variant: the catch block reports a fixed message
ControllerHidingTranscribeError ==
    /\ pc = "transcribing"
    /\ wsvc.st \in {"returned", "threw"}
    /\ IF wsvc.st = "returned"
       THEN /\ original' = wsvc.result
            /\ cu' = StartCleanups(wsvc.result)
            /\ pall' = [IdlePromiseAll EXCEPT !.st = "pending"]
            /\ pc' = "cleaning"
            /\ UNCHANGED responses
       ELSE /\ Respond(500, [error |-> <<"Transcription failed">>,
                             message |-> <<"Unknown error occurred">>])
            /\ pc' = "done"
            /\ UNCHANGED <<original, cu, pall>>
    /\ UNCHANGED <<reqKind, reqFile, reqBody, wsvc, settleOrder>>
    /\ UNCHANGED convVars

\* transcribeAudio resumes after await whisperService.transcribe(file)
ControllerAfterTranscribe ==
    /\ pc = "transcribing"
    /\ wsvc.st \in {"returned", "threw"}
    /\ IF wsvc.st = "returned"
       THEN /\ original' = wsvc.result
            /\ cu' = StartCleanups(wsvc.result)
            /\ pall' = [IdlePromiseAll EXCEPT !.st = "pending"]
            /\ pc' = "cleaning"
            /\ UNCHANGED responses
       ELSE /\ Respond(500, [error |-> <<"Transcription failed">>,
                             message |-> wsvc.err])
            /\ pc' = "done"
            /\ UNCHANGED <<original, cu, pall>>
    /\ UNCHANGED <<reqKind, reqFile, reqBody, wsvc, settleOrder>>
    /\ UNCHANGED convVars

\* faulty variant: a whitespace-only text is accepted
InvalidTextWithoutTrim(b) == b.type # "string" \/ b.val = <<>>

\* !text || typeof text !== 'string' || text.trim().length === 0
InvalidText(b) ==
    b.type # "string" \/ b.val = <<>> \/ Len(Trim(b.val)) = 0

\* faulty variant: the text handed to the cleanup calls is trimmed first
CleanupTextTrimmed ==
    /\ pc = "idle"
    /\ \E b \in BodyTexts :
          /\ reqBody' = b
          /\ IF InvalidText(b)
             THEN /\ Respond(400, [error |-> <<"No text provided or text is empty">>])
                  /\ pc' = "done"
                  /\ UNCHANGED <<original, cu, pall>>
             ELSE /\ original' = Trim(b.val)
                  /\ cu' = StartCleanups(Trim(b.val))
                  /\ pall' = [IdlePromiseAll EXCEPT !.st = "pending"]
                  /\ pc' = "cleaning"
                  /\ UNCHANGED responses
    /\ reqKind' = "cleanupText"
    /\ UNCHANGED <<reqFile, wsvc, settleOrder>>
    /\ UNCHANGED convVars

\* cleanupText up to its first await
CleanupText ==
    /\ pc = "idle"
    /\ \E b \in BodyTexts :
          /\ reqBody' = b
          /\ IF InvalidText(b)
             THEN /\ Respond(400, [error |-> <<"No text provided or text is empty">>])
                  /\ pc' = "done"
                  /\ UNCHANGED <<original, cu, pall>>
             ELSE /\ original' = b.val
                  /\ cu' = StartCleanups(b.val)
                  /\ pall' = [IdlePromiseAll EXCEPT !.st = "pending"]
                  /\ pc' = "cleaning"
                  /\ UNCHANGED responses
    /\ reqKind' = "cleanupText"
    /\ UNCHANGED <<reqFile, wsvc, settleOrder>>
    /\ UNCHANGED convVars

\* the text-generation engine answered (or failed) the call of mode m;
\* processTranscript finishes and its promise settles
GeminiReply(m) ==
    /\ cu[m].st = "inflight"
    /\ \E engineOk \in BOOLEAN, text \in Texts :
          LET o == ProcessOutcome(m, engineOk, text)
          IN  /\ cu' = [cu EXCEPT ![m].st = IF o.ok THEN "fulfilled" ELSE "rejected",
                                  ![m].val = o.val,
                                  ![m].err = o.err,
                                  ![m].out = <<EngineOutcome(engineOk, text)>>]
              /\ pall' = PromiseAllSettle(pall, ModeIndex[m], o.ok, o.val, o.err)
    /\ settleOrder' = Append(settleOrder, m)
    /\ UNCHANGED <<pc, reqKind, reqFile, reqBody, original, wsvc, responses>>
    /\ UNCHANGED convVars

\* faulty variant: the handler answers again when a cleanup settles after
\* the response was sent
ControllerAnsweringEachSettle ==
    /\ pc \in {"cleaning", "done"}
    /\ pall.st \in {"fulfilled", "rejected"}
    /\ Len(responses) < Len(settleOrder)
    /\ IF pall.st = "fulfilled"
       THEN Respond(IF reqKind = "transcribe" THEN 201 ELSE 200,
                    [original |-> original,
                     cleaned |-> pall.values[1],
                     intelligent |-> pall.values[2],
                     message |-> IF reqKind = "transcribe"
                                 THEN <<"Transcription and cleanup completed successfully">>
                                 ELSE <<"Text cleanup completed successfully">>])
       ELSE Respond(500,
                    [error |-> IF reqKind = "transcribe"
                               THEN <<"Transcription failed">>
                               ELSE <<"Text cleanup failed">>,
                     message |-> pall.reason])
    /\ pc' = "done"
    /\ UNCHANGED <<reqKind, reqFile, reqBody, original, wsvc, cu, pall, settleOrder>>
    /\ UNCHANGED convVars

\* the handler resumes after await Promise.all([...])
ControllerAfterCleanup ==
    /\ pc = "cleaning"
    /\ pall.st \in {"fulfilled", "rejected"}
    /\ IF pall.st = "fulfilled"
       THEN Respond(IF reqKind = "transcribe" THEN 201 ELSE 200,
                    [original |-> original,
                     cleaned |-> pall.values[1],
                     intelligent |-> pall.values[2],
                     message |-> IF reqKind = "transcribe"
                                 THEN <<"Transcription and cleanup completed successfully">>
                                 ELSE <<"Text cleanup completed successfully">>])
       ELSE Respond(500,
                    [error |-> IF reqKind = "transcribe"
                               THEN <<"Transcription failed">>
                               ELSE <<"Text cleanup failed">>,
                     message |-> pall.reason])
    /\ pc' = "done"
    /\ UNCHANGED <<reqKind, reqFile, reqBody, original, wsvc, cu, pall, settleOrder>>
    /\ UNCHANGED convVars

PipeInit ==
    /\ pc = "idle"
    /\ reqKind = "none"
    /\ reqFile = NoFile
    /\ reqBody = [type |-> "undefined", val |-> <<>>]
    /\ original = <<>>
    /\ wsvc = IdleWhisper
    /\ cu = [m \in Modes |-> IdleCleanup]
    /\ pall = IdlePromiseAll
    /\ responses = <<>>
    /\ settleOrder = <<>>

(***************************************************************************)
(* Browser: getUserMedia streams and MediaRecorder objects                 *)
(***************************************************************************)
\* the recording sessions of one page: the streams and MediaRecorder objects
\* that a first and a second startRecording create
Recs == {1, 2}

\* preference list of getSupportedMimeType
MimeTypes == <<"audio/webm", "audio/webm;codecs=opus", "audio/ogg;codecs=opus", "audio/mp4">>

NoMime == ""

\* browsers: none of the types supported, or the types from some position
\* of the list on, so that each type is the chosen one in some browser
SupportedSets ==
    {{MimeTypes[i] : i \in n..Len(MimeTypes)} : n \in 1..(Len(MimeTypes) + 1)}

NoChunk == [rec |-> 0, n |-> 0, size |-> 0]

Ev(k, type, c) == [rec |-> k, type |-> type, chunk |-> c]

\* the blob recorder k produces next, of the given size
NextChunk(k, size) == [rec |-> k, n |-> produced[k] + 1, size |-> size]

\* the task queued when recorder k is inactivated by stop() or by its
\* tracks ending: fire dataavailable with the gathered data, then stop
StopEvents(k, size) ==
    <<Ev(k, "dataavailable", NextChunk(k, size)), Ev(k, "stop", NoChunk)>>

\* a timeslice of recorder k elapsed: a dataavailable event is queued
BrowserData(k) ==
    /\ rstate[k] = "recording"
    /\ produced[k] < MaxChunks
    /\ \E size \in {0, 1} :
          evq' = Append(evq, Ev(k, "dataavailable", NextChunk(k, size)))
    /\ produced' = [produced EXCEPT ![k] = @ + 1]
    /\ UNCHANGED <<hasMediaDevices, supported, reportsMime, sstate, rstate, rmime,
                   onstopH, delivered>>

\* recorder k cannot continue: it is inactivated and error, dataavailable
\* and stop are queued
BrowserError(k) ==
    /\ rstate[k] = "recording"
    /\ rstate' = [rstate EXCEPT ![k] = "inactive"]
    /\ \E size \in {0, 1} :
          evq' = evq \o <<Ev(k, "error", NoChunk)>> \o StopEvents(k, size)
    /\ produced' = [produced EXCEPT ![k] = @ + 1]
    /\ UNCHANGED <<hasMediaDevices, supported, reportsMime, sstate, rmime,
                   onstopH, delivered>>

BrowserInit ==
    /\ sstate = [k \in Recs |-> "none"]
    /\ rstate = [k \in Recs |-> "none"]
    /\ rmime = [k \in Recs |-> NoMime]
    /\ evq = <<>>
    /\ produced = [k \in Recs |-> 0]
    /\ onstopH = [k \in Recs |-> "default"]
    /\ delivered = [k \in Recs |-> <<>>]

(***************************************************************************)
(* AudioRecorder                                                           *)
(***************************************************************************)
\* types.find((type) => MediaRecorder.isTypeSupported(type)) || null
GetSupportedMimeType(sup) ==
    LET idx == {i \in 1..Len(MimeTypes) : MimeTypes[i] \in sup}
    IN  IF idx = {} THEN NoMime
        ELSE MimeTypes[CHOOSE i \in idx : \A j \in idx : i <= j]

NoBlob == [chunks |-> <<>>, type |-> NoMime]

\* startRecording up to await getUserMedia
AR_StartRecording ==
    /\ ar_calls + rs_calls < Cardinality(Recs)
    /\ ar_calls' = ar_calls + 1
    /\ IF hasMediaDevices
       THEN /\ ar_error' = <<>>
            /\ ar_pending' = ar_pending + 1
       ELSE /\ ar_error' = <<"MediaRecorder API is not supported in this browser">>
            /\ UNCHANGED ar_pending
    /\ UNCHANGED <<ar_mediaRecorder, ar_audioChunks, ar_stream, ar_state, ar_ret,
                   ar_promise, ar_blob>>
    /\ UNCHANGED browserVars

\* getUserMedia resolved with a new stream k: the rest of startRecording
AR_GetUserMediaResolve ==
    /\ ar_pending > 0
    /\ ar_pending' = ar_pending - 1
    /\ \E k \in Recs :
          /\ sstate[k] = "none"
          /\ \A j \in Recs : j < k => sstate[j] # "none"
          /\ sstate' = [sstate EXCEPT ![k] = "live"]
          /\ ar_stream' = k
          /\ IF GetSupportedMimeType(supported) = NoMime
             THEN /\ ar_error' = <<"No supported audio MIME type found">>
                  /\ UNCHANGED <<rstate, rmime, evq, ar_mediaRecorder, ar_audioChunks>>
             ELSE /\ ar_mediaRecorder' = k
                  /\ rmime' = [rmime EXCEPT ![k] =
                                  IF reportsMime THEN GetSupportedMimeType(supported)
                                  ELSE NoMime]
                  /\ ar_audioChunks' = <<>>
                  /\ rstate' = [rstate EXCEPT ![k] = "recording"]
                  /\ evq' = Append(evq, Ev(k, "start", NoChunk))
                  /\ UNCHANGED ar_error
    /\ UNCHANGED <<hasMediaDevices, supported, reportsMime, produced, onstopH, delivered>>
    /\ UNCHANGED <<ar_state, ar_calls, ar_ret, ar_promise, ar_blob>>

\* getUserMedia rejected: the catch block records the message and rethrows
AR_GetUserMediaReject ==
    /\ ar_pending > 0
    /\ ar_pending' = ar_pending - 1
    /\ ar_error' = <<"Permission denied">>
    /\ UNCHANGED <<ar_mediaRecorder, ar_audioChunks, ar_stream, ar_state, ar_calls,
                   ar_ret, ar_promise, ar_blob>>
    /\ UNCHANGED browserVars

\* faulty variant: only a missing recorder makes stopRecording return null
AR_StopIsNoopWithoutRecorder == ar_mediaRecorder = 0

\* stopRecording returns null: no recorder, or the recorder is inactive
AR_StopIsNoop == ar_mediaRecorder = 0 \/ rstate[ar_mediaRecorder] = "inactive"

\* the body of stopRecording, given the events still to be dispatched:
\* either nothing, or the stop handler is replaced and stop() is called
AR_StopBody(pendingEvents) ==
    IF AR_StopIsNoop
    THEN /\ evq' = pendingEvents
         /\ UNCHANGED <<rstate, produced, onstopH, ar_promise>>
    ELSE /\ onstopH' = [onstopH EXCEPT ![ar_mediaRecorder] = "resolver"]
         /\ ar_promise' = [ar_promise EXCEPT ![ar_mediaRecorder] = "pending"]
         /\ rstate' = [rstate EXCEPT ![ar_mediaRecorder] = "inactive"]
         /\ \E size \in {0, 1} :
               evq' = pendingEvents \o StopEvents(ar_mediaRecorder, size)
         /\ produced' = [produced EXCEPT ![ar_mediaRecorder] = @ + 1]

\* stopRecording(), called by the user
AR_StopRecording ==
    /\ ar_ret' = IF AR_StopIsNoop THEN "null" ELSE "promise"
    /\ ar_stopSeq' = 1 - ar_stopSeq
    /\ AR_StopBody(evq)
    /\ UNCHANGED <<hasMediaDevices, supported, reportsMime, sstate, rmime, delivered>>
    /\ UNCHANGED <<ar_mediaRecorder, ar_audioChunks, ar_stream, ar_state, ar_error,
                   ar_calls, ar_pending, ar_blob>>

\* the next event to dispatch is of the given type
NextEvent(type) == evq # <<>> /\ Head(evq).type = type

\* ... and is fired at a recorder whose handlers AudioRecorder installed
AR_NextEvent(type) == NextEvent(type) /\ Head(evq).rec \notin rs_recorders

\* faulty variant: the start handler sets PAUSED
AR_OnStartPaused ==
    /\ AR_NextEvent("start")
    /\ evq' = Tail(evq)
    /\ ar_state' = "paused"
    /\ UNCHANGED <<hasMediaDevices, supported, reportsMime, sstate, rstate, rmime,
                   produced, onstopH, delivered>>
    /\ UNCHANGED <<ar_mediaRecorder, ar_audioChunks, ar_stream, ar_error, ar_calls,
                   ar_pending, ar_ret, ar_promise, ar_blob>>

\* onstart
AR_OnStart ==
    /\ AR_NextEvent("start")
    /\ evq' = Tail(evq)
    /\ ar_state' = "recording"
    /\ UNCHANGED <<hasMediaDevices, supported, reportsMime, sstate, rstate, rmime,
                   produced, onstopH, delivered>>
    /\ UNCHANGED <<ar_mediaRecorder, ar_audioChunks, ar_stream, ar_error, ar_calls,
                   ar_pending, ar_ret, ar_promise, ar_blob>>

\* this.audioChunks after ondataavailable ran for the blob c
PushChunk(chunks, c) == IF c.size > 0 THEN Append(chunks, c) ELSE chunks

\* ondataavailable
AR_OnDataAvailable ==
    /\ AR_NextEvent("dataavailable")
    /\ evq' = Tail(evq)
    /\ delivered' = [delivered EXCEPT ![Head(evq).rec] = Append(@, Head(evq).chunk)]
    /\ ar_audioChunks' = PushChunk(ar_audioChunks, Head(evq).chunk)
    /\ UNCHANGED <<hasMediaDevices, supported, reportsMime, sstate, rstate, rmime,
                   produced, onstopH>>
    /\ UNCHANGED <<ar_mediaRecorder, ar_stream, ar_state, ar_error, ar_calls,
                   ar_pending, ar_ret, ar_promise, ar_blob>>

\* faulty variant: the blob is always given the default type
AR_BlobTypeDefault == "audio/webm"

\* the type of the blob built by the stop handler of stopRecording
AR_BlobType ==
    IF ar_mediaRecorder # 0 /\ rmime[ar_mediaRecorder] # NoMime
    THEN rmime[ar_mediaRecorder]
    ELSE "audio/webm"

\* faulty variant: the replaced handler is lost and the promise stays pending
AR_OnStopWithoutResolve ==
    /\ AR_NextEvent("stop")
    /\ ar_state' = "idle"
    /\ sstate' = IF ar_stream # 0 THEN [sstate EXCEPT ![ar_stream] = "stopped"]
                 ELSE sstate
    /\ IF ar_stream # 0 /\ rstate[ar_stream] = "recording"
       THEN /\ rstate' = [rstate EXCEPT ![ar_stream] = "inactive"]
            /\ \E size \in {0, 1} :
                  evq' = Tail(evq) \o StopEvents(ar_stream, size)
            /\ produced' = [produced EXCEPT ![ar_stream] = @ + 1]
       ELSE /\ evq' = Tail(evq)
            /\ UNCHANGED <<rstate, produced>>
    /\ IF FALSE
       THEN /\ ar_blob' = [ar_blob EXCEPT ![Head(evq).rec] =
                              [chunks |-> ar_audioChunks, type |-> AR_BlobType]]
            /\ ar_audioChunks' = <<>>
            /\ ar_promise' = [ar_promise EXCEPT ![Head(evq).rec] = "resolved"]
       ELSE UNCHANGED <<ar_blob, ar_audioChunks, ar_promise>>
    /\ UNCHANGED <<hasMediaDevices, supported, reportsMime, rmime, onstopH, delivered>>
    /\ UNCHANGED <<ar_mediaRecorder, ar_stream, ar_error, ar_calls, ar_pending, ar_ret>>

\* onstop, as installed by startRecording or replaced by stopRecording:
\* state IDLE, the tracks of this.stream are stopped (which ends a recorder
\* still recording that stream), and the replaced handler builds the blob
AR_OnStop ==
    /\ AR_NextEvent("stop")
    /\ ar_state' = "idle"
    /\ sstate' = IF ar_stream # 0 THEN [sstate EXCEPT ![ar_stream] = "stopped"]
                 ELSE sstate
    /\ IF ar_stream # 0 /\ rstate[ar_stream] = "recording"
       THEN /\ rstate' = [rstate EXCEPT ![ar_stream] = "inactive"]
            /\ \E size \in {0, 1} :
                  evq' = Tail(evq) \o StopEvents(ar_stream, size)
            /\ produced' = [produced EXCEPT ![ar_stream] = @ + 1]
       ELSE /\ evq' = Tail(evq)
            /\ UNCHANGED <<rstate, produced>>
    /\ IF onstopH[Head(evq).rec] = "resolver"
       THEN /\ ar_blob' = [ar_blob EXCEPT ![Head(evq).rec] =
                              [chunks |-> ar_audioChunks, type |-> AR_BlobType]]
            /\ ar_audioChunks' = <<>>
            /\ ar_promise' = [ar_promise EXCEPT ![Head(evq).rec] = "resolved"]
       ELSE UNCHANGED <<ar_blob, ar_audioChunks, ar_promise>>
    /\ UNCHANGED <<hasMediaDevices, supported, reportsMime, rmime, onstopH, delivered>>
    /\ UNCHANGED <<ar_mediaRecorder, ar_stream, ar_error, ar_calls, ar_pending, ar_ret>>

\* onerror: the message is recorded and this.stopRecording() is called
AR_OnError ==
    /\ AR_NextEvent("error")
    /\ ar_error' = <<"Recording error: ", "device failure">>
    /\ AR_StopBody(Tail(evq))
    /\ UNCHANGED <<hasMediaDevices, supported, reportsMime, sstate, rmime, delivered>>
    /\ UNCHANGED <<ar_mediaRecorder, ar_audioChunks, ar_stream, ar_state, ar_calls,
                   ar_pending, ar_ret, ar_blob>>

ARInit ==
    /\ ar_mediaRecorder = 0
    /\ ar_audioChunks = <<>>
    /\ ar_stream = 0
    /\ ar_state = "idle"
    /\ ar_error = <<>>
    /\ ar_calls = 0
    /\ ar_pending = 0
    /\ ar_ret = "none"
    /\ ar_promise = [k \in Recs |-> "none"]
    /\ ar_blob = [k \in Recs |-> NoBlob]
    /\ ar_stopSeq = 0

(***************************************************************************)
(* RecordingService                                                        *)
(***************************************************************************)
\* the next event is fired at a recorder whose handlers initializeRecorder
\* installed
RS_NextEvent(type) == NextEvent(type) /\ Head(evq).rec \in rs_recorders

\* clearTimer: the interval this.timerInterval refers to is cleared
ClearTimer(ivs, t) == ivs \ {t}

\* startRecording up to await getUserMedia
RS_StartRecording ==
    /\ ar_calls + rs_calls < Cardinality(Recs)
    /\ rs_calls' = rs_calls + 1
    /\ IF hasMediaDevices
       THEN /\ rs_pending' = rs_pending + 1
            /\ UNCHANGED rs_error
       ELSE /\ rs_error' = <<"Your browser does not support microphone access. Please use a modern browser.">>
            /\ UNCHANGED rs_pending
    /\ rs_lastOp' = "start"
    /\ rs_opSeq' = 1 - rs_opSeq
    /\ UNCHANGED <<rs_mediaRecorder, rs_audioChunks, rs_timerInterval,
                   rs_recordingTime, rs_audioBlob, rs_audioUrl, rs_recorders,
                   intervals, urls>>
    /\ UNCHANGED browserVars

\* getUserMedia resolved with a new stream k: the rest of startRecording,
\* initializeRecorder(stream, mimeType) and start(1000)
RS_GetUserMediaResolve ==
    /\ rs_pending > 0
    /\ rs_pending' = rs_pending - 1
    /\ \E k \in Recs :
          /\ sstate[k] = "none"
          /\ \A j \in Recs : j < k => sstate[j] # "none"
          /\ sstate' = [sstate EXCEPT ![k] = "live"]
          /\ IF GetSupportedMimeType(supported) = NoMime
             THEN /\ rs_error' = <<"No supported audio format found">>
                  /\ UNCHANGED <<rstate, rmime, evq, rs_mediaRecorder,
                                 rs_audioChunks, rs_recordingTime, rs_recorders>>
             ELSE /\ rs_mediaRecorder' = k
                  /\ rs_recorders' = rs_recorders \cup {k}
                  /\ rmime' = [rmime EXCEPT ![k] =
                                  IF reportsMime THEN GetSupportedMimeType(supported)
                                  ELSE NoMime]
                  /\ rs_audioChunks' = <<>>
                  /\ rs_recordingTime' = 0
                  /\ rstate' = [rstate EXCEPT ![k] = "recording"]
                  /\ evq' = Append(evq, Ev(k, "start", NoChunk))
                  /\ UNCHANGED rs_error
    /\ UNCHANGED <<hasMediaDevices, supported, reportsMime, produced, onstopH, delivered>>
    /\ UNCHANGED <<rs_timerInterval, rs_audioBlob, rs_audioUrl, rs_calls,
                   rs_lastOp, rs_opSeq, intervals, urls>>

\* getUserMedia rejected: createUserFriendlyError's message is thrown
RS_GetUserMediaReject ==
    /\ rs_pending > 0
    /\ rs_pending' = rs_pending - 1
    /\ rs_error' = <<"Microphone access was denied. Please check your browser permissions and try again.">>
    /\ UNCHANGED <<rs_mediaRecorder, rs_audioChunks, rs_timerInterval,
                   rs_recordingTime, rs_audioBlob, rs_audioUrl, rs_calls,
                   rs_recorders, rs_lastOp, rs_opSeq, intervals, urls>>
    /\ UNCHANGED browserVars

\* the guard of stopRecording fails: no recorder, or the recorder is inactive
RS_StopIsNoop == rs_mediaRecorder = 0 \/ rstate[rs_mediaRecorder] = "inactive"

\* the body of stopRecording: stop() on a recorder that is not inactive
RS_StopBody ==
    IF RS_StopIsNoop
    THEN UNCHANGED <<rstate, evq, produced>>
    ELSE /\ rstate' = [rstate EXCEPT ![rs_mediaRecorder] = "inactive"]
         /\ \E size \in {0, 1} :
               evq' = evq \o StopEvents(rs_mediaRecorder, size)
         /\ produced' = [produced EXCEPT ![rs_mediaRecorder] = @ + 1]

\* stopRecording(), called by the user
RS_StopRecording ==
    /\ RS_StopBody
    /\ rs_lastOp' = "stop"
    /\ rs_opSeq' = 1 - rs_opSeq
    /\ UNCHANGED <<hasMediaDevices, supported, reportsMime, sstate, rmime,
                   onstopH, delivered>>
    /\ UNCHANGED <<rs_mediaRecorder, rs_audioChunks, rs_timerInterval,
                   rs_recordingTime, rs_audioBlob, rs_audioUrl, rs_error,
                   rs_calls, rs_pending, rs_recorders, intervals, urls>>

\* reset(), called by the user
RS_Reset ==
    /\ RS_StopBody
    /\ intervals' = ClearTimer(intervals, rs_timerInterval)
    /\ rs_timerInterval' = 0
    /\ rs_audioBlob' = <<>>
    /\ rs_audioUrl' = 0
    /\ rs_recordingTime' = 0
    /\ rs_audioChunks' = <<>>
    /\ rs_lastOp' = "reset"
    /\ rs_opSeq' = 1 - rs_opSeq
    /\ UNCHANGED <<hasMediaDevices, supported, reportsMime, sstate, rmime,
                   onstopH, delivered>>
    /\ UNCHANGED <<rs_mediaRecorder, rs_error, rs_calls, rs_pending,
                   rs_recorders, urls>>

\* onstart: startTimer() clears the running timer and sets a new interval
RS_OnStart ==
    /\ RS_NextEvent("start")
    /\ evq' = Tail(evq)
    /\ intervals' = ClearTimer(intervals, rs_timerInterval) \cup {Head(evq).rec}
    /\ rs_timerInterval' = Head(evq).rec
    /\ UNCHANGED <<hasMediaDevices, supported, reportsMime, sstate, rstate, rmime,
                   produced, onstopH, delivered>>
    /\ UNCHANGED <<rs_mediaRecorder, rs_audioChunks, rs_recordingTime,
                   rs_audioBlob, rs_audioUrl, rs_error, rs_calls, rs_pending,
                   rs_recorders, rs_lastOp, rs_opSeq, urls>>

\* the interval callback: recordingTime.update((time) => time + 1)
RS_TimerTick ==
    /\ intervals # {}
    /\ rs_recordingTime < MaxTime
    /\ rs_recordingTime' = rs_recordingTime + 1
    /\ UNCHANGED <<rs_mediaRecorder, rs_audioChunks, rs_timerInterval,
                   rs_audioBlob, rs_audioUrl, rs_error, rs_calls, rs_pending,
                   rs_recorders, rs_lastOp, rs_opSeq, intervals, urls>>
    /\ UNCHANGED browserVars

\* ondataavailable
RS_OnDataAvailable ==
    /\ RS_NextEvent("dataavailable")
    /\ evq' = Tail(evq)
    /\ delivered' = [delivered EXCEPT ![Head(evq).rec] = Append(@, Head(evq).chunk)]
    /\ rs_audioChunks' = PushChunk(rs_audioChunks, Head(evq).chunk)
    /\ UNCHANGED <<hasMediaDevices, supported, reportsMime, sstate, rstate, rmime,
                   produced, onstopH>>
    /\ UNCHANGED <<rs_mediaRecorder, rs_timerInterval, rs_recordingTime,
                   rs_audioBlob, rs_audioUrl, rs_error, rs_calls, rs_pending,
                   rs_recorders, rs_lastOp, rs_opSeq, intervals, urls>>

\* onstop of recorder k: clearTimer, the tracks of the stream the recorder
\* was created with are stopped, the blob and its object URL are published
RS_OnStop ==
    /\ RS_NextEvent("stop")
    /\ evq' = Tail(evq)
    /\ intervals' = ClearTimer(intervals, rs_timerInterval)
    /\ rs_timerInterval' = 0
    /\ sstate' = [sstate EXCEPT ![Head(evq).rec] = "stopped"]
    /\ rs_audioBlob' = <<[chunks |-> rs_audioChunks,
                          type |-> GetSupportedMimeType(supported)]>>
    /\ rs_audioUrl' = Head(evq).rec
    /\ urls' = urls \cup {Head(evq).rec}
    /\ rs_audioChunks' = <<>>
    /\ UNCHANGED <<hasMediaDevices, supported, reportsMime, rstate, rmime,
                   produced, onstopH, delivered>>
    /\ UNCHANGED <<rs_mediaRecorder, rs_recordingTime, rs_error, rs_calls,
                   rs_pending, rs_recorders, rs_lastOp, rs_opSeq>>

\* an error event: initializeRecorder installs no onerror handler
RS_ErrorUnhandled ==
    /\ RS_NextEvent("error")
    /\ evq' = Tail(evq)
    /\ UNCHANGED <<hasMediaDevices, supported, reportsMime, sstate, rstate, rmime,
                   produced, onstopH, delivered>>
    /\ UNCHANGED rsVars

RSInit ==
    /\ rs_mediaRecorder = 0
    /\ rs_audioChunks = <<>>
    /\ rs_timerInterval = 0
    /\ rs_recordingTime = 0
    /\ rs_audioBlob = <<>>
    /\ rs_audioUrl = 0
    /\ rs_error = <<>>
    /\ rs_calls = 0
    /\ rs_pending = 0
    /\ rs_recorders = {}
    /\ rs_lastOp = "none"
    /\ rs_opSeq = 0
    /\ intervals = {}
    /\ urls = {}

(***************************************************************************)
(* Server startup: getConfig and index.ts                                  *)
(***************************************************************************)
\* environment variables; "" stands for unset or empty, which
\* `process.env.X || default` and `!value` treat alike
ProviderEnv == {"", "gemini", "GEMINI", "openrouter", "azure"}

KeyEnv == {"", "key"}

UrlEnv == {"", "http://whisper:9000"}

Envs ==
    [CLEANUP_PROVIDER : ProviderEnv, GEMINI_API_KEY : KeyEnv,
     OPENROUTER_API_KEY : KeyEnv, WHISPER_API_URL : UrlEnv]

\* String.prototype.toLowerCase on the provider names that are enumerated
ToLowerCase(p) == IF p = "GEMINI" THEN "gemini" ELSE p

\* (process.env.CLEANUP_PROVIDER || 'gemini').toLowerCase()
CleanupProvider(env) ==
    ToLowerCase(IF env.CLEANUP_PROVIDER = "" THEN "gemini" ELSE env.CLEANUP_PROVIDER)

NoConfig == [cleanupProvider |-> "", whisperUrl |-> "", geminiApiKey |-> "",
             openrouterApiKey |-> ""]

\* faulty variant: the key of the selected provider is not validated
GetConfigWithoutValidation(env) ==
    [ok |-> TRUE, err |-> <<>>,
     config |-> [cleanupProvider |-> CleanupProvider(env),
                 whisperUrl |-> IF env.WHISPER_API_URL = ""
                                THEN "http://localhost:9000"
                                ELSE env.WHISPER_API_URL,
                 geminiApiKey |-> env.GEMINI_API_KEY,
                 openrouterApiKey |-> env.OPENROUTER_API_KEY]]

\* getConfig: the config it returns or the error it throws
GetConfig(env) ==
    IF CleanupProvider(env) = "gemini" /\ env.GEMINI_API_KEY = ""
    THEN [ok |-> FALSE, config |-> NoConfig,
          err |-> <<"GEMINI_API_KEY environment variable is required when using Gemini provider">>]
    ELSE IF CleanupProvider(env) = "openrouter" /\ env.OPENROUTER_API_KEY = ""
    THEN [ok |-> FALSE, config |-> NoConfig,
          err |-> <<"OPENROUTER_API_KEY environment variable is required when using OpenRouter provider">>]
    ELSE [ok |-> TRUE, err |-> <<>>,
          config |-> [cleanupProvider |-> CleanupProvider(env),
                      whisperUrl |-> IF env.WHISPER_API_URL = ""
                                     THEN "http://localhost:9000"
                                     ELSE env.WHISPER_API_URL,
                      geminiApiKey |-> env.GEMINI_API_KEY,
                      openrouterApiKey |-> env.OPENROUTER_API_KEY]]

\* const config = getConfig(): a throw at module level ends the process
BootGetConfig ==
    /\ boot.pc = "start"
    /\ boot' = IF GetConfig(boot.env).ok
               THEN [boot EXCEPT !.pc = "configured",
                                 !.config = GetConfig(boot.env).config]
               ELSE [boot EXCEPT !.pc = "crashed", !.err = GetConfig(boot.env).err]

\* new WhisperTranscriptionService(config.whisperUrl)
BootWhisperService ==
    /\ boot.pc = "configured"
    /\ boot' = [boot EXCEPT !.pc = "whisper",
                            !.services = @ \cup {"WhisperTranscriptionService"}]

\* the cleanup service is chosen by config.cleanupProvider
BootCleanupService ==
    /\ boot.pc = "whisper"
    /\ boot' = IF boot.config.cleanupProvider = "openrouter"
               THEN [boot EXCEPT !.pc = "cleanup",
                                 !.services = @ \cup {"OpenRouterCleanupService"},
                                 !.cleanupKey = boot.config.openrouterApiKey]
               ELSE [boot EXCEPT !.pc = "cleanup",
                                 !.services = @ \cup {"GeminiCleanupService"},
                                 !.cleanupKey = boot.config.geminiApiKey]

\* new TranscriptionController(whisperService, cleanupService) and the routes
BootController ==
    /\ boot.pc = "cleanup"
    /\ boot' = [boot EXCEPT !.pc = "controller",
                            !.services = @ \cup {"TranscriptionController"}]

\* app.listen(config.port, ...)
BootListen ==
    /\ boot.pc = "controller"
    /\ boot' = [boot EXCEPT !.pc = "listening"]

IdleBoot(env) ==
    [pc |-> "start", env |-> env, config |-> NoConfig, services |-> {},
     cleanupKey |-> "", err |-> <<>>]

\* the environment of the server whose requests are modelled
DefaultEnv ==
    [CLEANUP_PROVIDER |-> "", GEMINI_API_KEY |-> "key",
     OPENROUTER_API_KEY |-> "", WHISPER_API_URL |-> ""]

ListeningBoot ==
    [pc |-> "listening", env |-> DefaultEnv, config |-> GetConfig(DefaultEnv).config,
     services |-> {"WhisperTranscriptionService", "GeminiCleanupService",
                   "TranscriptionController"},
     cleanupKey |-> "key", err |-> <<>>]

(***************************************************************************)
(* The recording sent to the server                                        *)
(***************************************************************************)
\* faulty variant: file.mimetype is the part's Content-Type as sent
MulterMimetypeWithParams(type) == type

\* file.mimetype as multer hands it to fileFilter: the type/subtype of the
\* part's Content-Type, without its parameters
MulterMimetype(type) ==
    CASE type = "audio/webm;codecs=opus" -> "audio/webm"
      [] type = "audio/ogg;codecs=opus" -> "audio/ogg"
      [] OTHER -> type

\* Transcriber.onProcessAudio: the blob of RecordingService is posted to
\* /transcribe as recording_<now>.webm (here r.w); its byte size is not modelled and
\* is one of the enumerated sizes
UploadRecording ==
    /\ rs_audioBlob # <<>>
    /\ \E z \in UploadSizes :
          RouteUpload([present |-> TRUE,
                       originalname |-> <<"r", ".", "w">>,
                       mimetype |-> MulterMimetype(rs_audioBlob[1].type),
                       size |-> z])

(***************************************************************************)
(* FileUploadService                                                       *)
(***************************************************************************)
\* file-upload.ts: MAX_FILE_SIZE = 100 * 1024 * 1024
FU_MAX_FILE_SIZE == 104857600

\* file-upload.ts: ALLOWED_AUDIO_TYPES
FU_ALLOWED_AUDIO_TYPES ==
    {"audio/wav", "audio/mpeg", "audio/mp3", "audio/mp4", "audio/m4a",
     "audio/x-m4a", "audio/webm", "audio/ogg"}

FU_FileTypes == {"audio/wav", "audio/webm", "video/mp4", ""}

FU_FileSizes == {1, FU_MAX_FILE_SIZE, FU_MAX_FILE_SIZE + 1}

\* the File objects a user can select
FU_Files == [name : {<<"f">>, <<"g">>}, type : FU_FileTypes, size : FU_FileSizes]

FU_NoCall == [called |-> FALSE]

\* validateFileType: <<>> for null
FU_ValidateFileType(file) ==
    IF file.type \notin FU_ALLOWED_AUDIO_TYPES
    THEN <<"Invalid file type. Please upload a WAV, MP3, M4A, WebM, or OGG audio file.">>
    ELSE <<>>

\* faulty variant: a file of exactly the maximum size is rejected
FU_ValidateFileSizeStrict(file) ==
    IF file.size >= FU_MAX_FILE_SIZE
    THEN <<"File is too large. Maximum size is 100MB.">>
    ELSE <<>>

\* validateFileSize: <<>> for null
FU_ValidateFileSize(file) ==
    IF file.size > FU_MAX_FILE_SIZE
    THEN <<"File is too large. Maximum size is 100MB.">>
    ELSE <<>>

\* what validateAndSetFile returns: the first error, <<>> for null
FU_Validate(file) ==
    IF FU_ValidateFileType(file) # <<>> THEN FU_ValidateFileType(file)
    ELSE FU_ValidateFileSize(file)

\* the body of validateAndSetFile(file)
FU_ValidateAndSet(file) ==
    /\ fu_last' = [called |-> TRUE, file |-> file, ret |-> FU_Validate(file)]
    /\ IF FU_Validate(file) # <<>>
       THEN UNCHANGED <<fu_uploadedFile, fu_uploadedFileUrl, fu_created, fu_urls>>
       ELSE /\ fu_uploadedFile' = <<file>>
            /\ fu_created' = fu_created + 1
            /\ fu_urls' = fu_urls \cup {fu_created + 1}
            /\ fu_uploadedFileUrl' = fu_created + 1

\* validateAndSetFile called with a file the user selected
FU_ValidateAndSetFile ==
    /\ fu_created < MaxUrls
    /\ \E file \in FU_Files : FU_ValidateAndSet(file)

\* the body of reset()
FU_ResetBody ==
    /\ fu_urls' = IF fu_uploadedFileUrl # 0 THEN fu_urls \ {fu_uploadedFileUrl}
                  ELSE fu_urls
    /\ fu_uploadedFile' = <<>>
    /\ fu_uploadedFileUrl' = 0
    /\ UNCHANGED <<fu_created, fu_last>>

\* reset()
FU_Reset == FU_ResetBody

FUInit ==
    /\ fu_uploadedFile = <<>>
    /\ fu_uploadedFileUrl = 0
    /\ fu_created = 0
    /\ fu_urls = {}
    /\ fu_last = FU_NoCall

(***************************************************************************)
(* Transcriber component (type and upload paths; the speak path is the     *)
(* RecordingService above, the clipboard is left out)                      *)
(***************************************************************************)
\* what the user can have typed into the text area
TC_Inputs == {<<>>, <<" ">>, <<"a">>, <<" ", "a">>}

\* response bodies of the server; intelligent may be absent or empty
TC_Responses ==
    {[original |-> <<"a">>, cleaned |-> <<"b">>, intelligent |-> <<"c">>],
     [original |-> <<"a">>, cleaned |-> <<"b">>, intelligent |-> <<>>]}

TC_Reqs == 1..MaxReqs

TC_NoReq == [st |-> "none", stale |-> FALSE, result |-> <<>>]

\* a subscription made by processWithTranscription is still to call back
TC_InFlight(r) == tc_reqs[r].st \in {"sent", "timerNext", "timerError"}

\* onStartClick()
TC_OnStartClick ==
    /\ tc_currentState = "start"
    /\ tc_currentState' = "choice"
    /\ UNCHANGED <<tc_textInput, tc_isProcessing, tc_inputText, tc_outputText,
                   tc_intelligentText, tc_activeTab, tc_reqs>>

\* onChooseType()
TC_OnChooseType ==
    /\ tc_currentState = "choice"
    /\ tc_currentState' = "type-input"
    /\ UNCHANGED <<tc_textInput, tc_isProcessing, tc_inputText, tc_outputText,
                   tc_intelligentText, tc_activeTab, tc_reqs>>

\* onChooseUpload()
TC_OnChooseUpload ==
    /\ tc_currentState = "choice"
    /\ tc_currentState' = "upload-input"
    /\ UNCHANGED <<tc_textInput, tc_isProcessing, tc_inputText, tc_outputText,
                   tc_intelligentText, tc_activeTab, tc_reqs>>

\* the user edits the text area bound to textInput
TC_TypeText ==
    /\ tc_currentState = "type-input"
    /\ \E t \in TC_Inputs : tc_textInput' = t
    /\ UNCHANGED <<tc_currentState, tc_isProcessing, tc_inputText, tc_outputText,
                   tc_intelligentText, tc_activeTab, tc_reqs>>

\* onFileSelected(event) with one file chosen
TC_OnFileSelected ==
    /\ tc_currentState = "upload-input"
    /\ FU_ValidateAndSetFile
    /\ UNCHANGED <<tc_currentState, tc_textInput, tc_isProcessing, tc_inputText,
                   tc_outputText, tc_intelligentText, tc_activeTab, tc_reqs>>

\* processWithTranscription(fn): OUTPUT, isProcessing and a new subscription
TC_ProcessWithTranscription ==
    /\ tc_currentState' = "output"
    /\ tc_isProcessing' = TRUE
    /\ \E r \in TC_Reqs :
          /\ tc_reqs[r].st = "none"
          /\ \A q \in TC_Reqs : q < r => tc_reqs[q].st # "none"
          /\ tc_reqs' = [tc_reqs EXCEPT ![r].st = "sent"]
    /\ UNCHANGED <<tc_textInput, tc_inputText, tc_outputText, tc_intelligentText,
                   tc_activeTab>>

\* onProcessText()
TC_OnProcessText ==
    /\ tc_currentState = "type-input"
    /\ IF Trim(tc_textInput) = <<>>
       THEN UNCHANGED <<tc_currentState, tc_textInput, tc_isProcessing, tc_inputText,
                        tc_outputText, tc_intelligentText, tc_activeTab, tc_reqs>>
       ELSE TC_ProcessWithTranscription

\* onProcessUploadedFile()
TC_OnProcessUploadedFile ==
    /\ tc_currentState = "upload-input"
    /\ IF fu_uploadedFile = <<>>
       THEN UNCHANGED <<tc_currentState, tc_textInput, tc_isProcessing, tc_inputText,
                        tc_outputText, tc_intelligentText, tc_activeTab, tc_reqs>>
       ELSE TC_ProcessWithTranscription

\* onTabChange(tab)
TC_OnTabChange ==
    /\ tc_currentState = "output"
    /\ \E tab \in {"clean", "intelligent"} : tc_activeTab' = tab
    /\ UNCHANGED <<tc_currentState, tc_textInput, tc_isProcessing, tc_inputText,
                   tc_outputText, tc_intelligentText, tc_reqs>>

\* the observable emits the response: next schedules its timeout
TC_HttpNext(r) ==
    /\ tc_reqs[r].st = "sent"
    /\ \E result \in TC_Responses :
          tc_reqs' = [tc_reqs EXCEPT ![r].st = "timerNext", ![r].result = <<result>>]
    /\ UNCHANGED <<tc_currentState, tc_textInput, tc_isProcessing, tc_inputText,
                   tc_outputText, tc_intelligentText, tc_activeTab>>

\* the observable fails: error schedules its timeout
TC_HttpError(r) ==
    /\ tc_reqs[r].st = "sent"
    /\ tc_reqs' = [tc_reqs EXCEPT ![r].st = "timerError"]
    /\ UNCHANGED <<tc_currentState, tc_textInput, tc_isProcessing, tc_inputText,
                   tc_outputText, tc_intelligentText, tc_activeTab>>

\* the timeout set by next fires
TC_TimeoutNext(r) ==
    /\ tc_reqs[r].st = "timerNext"
    /\ tc_reqs' = [tc_reqs EXCEPT ![r].st = "done"]
    /\ tc_isProcessing' = FALSE
    /\ tc_inputText' = tc_reqs[r].result[1].original
    /\ tc_outputText' = tc_reqs[r].result[1].cleaned
    /\ tc_intelligentText' = IF tc_reqs[r].result[1].intelligent # <<>>
                             THEN tc_reqs[r].result[1].intelligent
                             ELSE tc_reqs[r].result[1].cleaned
    /\ UNCHANGED <<tc_currentState, tc_textInput, tc_activeTab>>

\* the timeout set by error fires
TC_TimeoutError(r) ==
    /\ tc_reqs[r].st = "timerError"
    /\ tc_reqs' = [tc_reqs EXCEPT ![r].st = "done"]
    /\ tc_isProcessing' = FALSE
    /\ tc_inputText' = <<>>
    /\ tc_outputText' = <<"Error processing. Please try again.">>
    /\ tc_intelligentText' = <<>>
    /\ UNCHANGED <<tc_currentState, tc_textInput, tc_activeTab>>

\* onReset(), offered while the view is not START; the subscriptions and
\* timeouts of earlier requests are left as they are (stale marks them)
TC_OnReset ==
    /\ tc_currentState # "start"
    /\ RS_Reset
    /\ FU_ResetBody
    /\ tc_textInput' = <<>>
    /\ tc_inputText' = <<>>
    /\ tc_outputText' = <<>>
    /\ tc_intelligentText' = <<>>
    /\ tc_activeTab' = "clean"
    /\ tc_isProcessing' = FALSE
    /\ tc_currentState' = "start"
    /\ tc_reqs' = [r \in TC_Reqs |->
                     IF TC_InFlight(r) THEN [tc_reqs[r] EXCEPT !.stale = TRUE]
                     ELSE tc_reqs[r]]

TCInit ==
    /\ tc_currentState = "start"
    /\ tc_textInput = <<>>
    /\ tc_isProcessing = FALSE
    /\ tc_inputText = <<>>
    /\ tc_outputText = <<>>
    /\ tc_intelligentText = <<>>
    /\ tc_activeTab = "clean"
    /\ tc_reqs = [r \in TC_Reqs |-> TC_NoReq]

PageInit == FUInit /\ TCInit

(***************************************************************************)
(* Specifications                                                          *)
(***************************************************************************)
\* the server is not concerned with the browser: a fixed one
DefaultBrowser ==
    /\ hasMediaDevices = TRUE
    /\ supported = {MimeTypes[i] : i \in 1..Len(MimeTypes)}
    /\ reportsMime = TRUE

Init ==
    /\ PipeInit /\ ConvInit /\ BrowserInit /\ ARInit /\ RSInit /\ DefaultBrowser
    /\ boot = ListeningBoot
    /\ PageInit

\* one request handled by the controller
Next ==
    \/ TranscribeRoute /\ UNCHANGED <<recVars, boot, pageVars>>
    \/ TranscribeAudio /\ UNCHANGED <<recVars, boot, pageVars>>
    \/ CleanupText /\ UNCHANGED <<recVars, boot, pageVars>>
    \/ \E i \in Convs : ConvStep(i) /\ UNCHANGED <<pipeVars, recVars, boot, pageVars>>
    \/ TranscribeAfterConvert /\ UNCHANGED <<recVars, boot, pageVars>>
    \/ WhisperReply /\ UNCHANGED <<recVars, boot, pageVars>>
    \/ WhisperTransportFail /\ UNCHANGED <<recVars, boot, pageVars>>
    \/ ControllerAfterTranscribe /\ UNCHANGED <<recVars, boot, pageVars>>
    \/ \E m \in Modes : GeminiReply(m) /\ UNCHANGED <<recVars, boot, pageVars>>
    \/ ControllerAfterCleanup /\ UNCHANGED <<recVars, boot, pageVars>>
    \/ HealthCheck /\ UNCHANGED <<recVars, boot, pageVars>>
    \/ ProbeReply /\ UNCHANGED <<recVars, boot, pageVars>>
    \/ ProbeTransportFail /\ UNCHANGED <<recVars, boot, pageVars>>
    \/ HealthCheckRespond /\ UNCHANGED <<recVars, boot, pageVars>>

Spec == Init /\ [][Next]_vars

\* concurrent convertToMp3 invocations on the shared temp directory
NextConv ==
    \/ \E i \in Convs : ConvCall(i) /\ UNCHANGED <<pipeVars, recVars, boot, pageVars>>
    \/ \E i \in Convs : ConvStep(i) /\ UNCHANGED <<pipeVars, recVars, boot, pageVars>>
    \/ Tick /\ UNCHANGED <<pipeVars, recVars, boot, pageVars>>

SpecConv == Init /\ [][NextConv]_vars

\* one AudioRecorder instance in a browser
InitAR ==
    /\ PipeInit /\ ConvInit /\ BrowserInit /\ ARInit /\ RSInit
    /\ boot = ListeningBoot
    /\ PageInit
    /\ hasMediaDevices \in BOOLEAN
    /\ supported \in SupportedSets
    /\ reportsMime \in BOOLEAN

NextAR ==
    \/ AR_StartRecording /\ UNCHANGED <<pipeVars, convVars, ar_stopSeq, rsVars, boot, pageVars>>
    \/ AR_GetUserMediaResolve /\ UNCHANGED <<pipeVars, convVars, ar_stopSeq, rsVars, boot, pageVars>>
    \/ AR_GetUserMediaReject /\ UNCHANGED <<pipeVars, convVars, ar_stopSeq, rsVars, boot, pageVars>>
    \/ AR_StopRecording /\ UNCHANGED <<pipeVars, convVars, rsVars, boot, pageVars>>
    \/ AR_OnStart /\ UNCHANGED <<pipeVars, convVars, ar_stopSeq, rsVars, boot, pageVars>>
    \/ AR_OnDataAvailable /\ UNCHANGED <<pipeVars, convVars, ar_stopSeq, rsVars, boot, pageVars>>
    \/ AR_OnStop /\ UNCHANGED <<pipeVars, convVars, ar_stopSeq, rsVars, boot, pageVars>>
    \/ AR_OnError /\ UNCHANGED <<pipeVars, convVars, ar_stopSeq, rsVars, boot, pageVars>>
    \/ \E k \in Recs : BrowserData(k) /\ UNCHANGED <<arVars, pipeVars, convVars, ar_stopSeq, rsVars, boot, pageVars>>
    \/ \E k \in Recs : BrowserError(k) /\ UNCHANGED <<arVars, pipeVars, convVars, ar_stopSeq, rsVars, boot, pageVars>>

SpecAR == InitAR /\ [][NextAR]_vars

\* one RecordingService instance in a browser
NextRS ==
    \/ RS_StartRecording /\ UNCHANGED <<pipeVars, convVars, arVars, ar_stopSeq, boot, pageVars>>
    \/ RS_GetUserMediaResolve /\ UNCHANGED <<pipeVars, convVars, arVars, ar_stopSeq, boot, pageVars>>
    \/ RS_GetUserMediaReject /\ UNCHANGED <<pipeVars, convVars, arVars, ar_stopSeq, boot, pageVars>>
    \/ RS_StopRecording /\ UNCHANGED <<pipeVars, convVars, arVars, ar_stopSeq, boot, pageVars>>
    \/ RS_Reset /\ UNCHANGED <<pipeVars, convVars, arVars, ar_stopSeq, boot, pageVars>>
    \/ RS_OnStart /\ UNCHANGED <<pipeVars, convVars, arVars, ar_stopSeq, boot, pageVars>>
    \/ RS_TimerTick /\ UNCHANGED <<pipeVars, convVars, arVars, ar_stopSeq, boot, pageVars>>
    \/ RS_OnDataAvailable /\ UNCHANGED <<pipeVars, convVars, arVars, ar_stopSeq, boot, pageVars>>
    \/ RS_OnStop /\ UNCHANGED <<pipeVars, convVars, arVars, ar_stopSeq, boot, pageVars>>
    \/ RS_ErrorUnhandled /\ UNCHANGED <<pipeVars, convVars, arVars, ar_stopSeq, boot, pageVars>>
    \/ \E k \in Recs : BrowserData(k) /\ UNCHANGED <<arVars, pipeVars, convVars, ar_stopSeq, rsVars, boot, pageVars>>
    \/ \E k \in Recs : BrowserError(k) /\ UNCHANGED <<arVars, pipeVars, convVars, ar_stopSeq, rsVars, boot, pageVars>>

SpecRS == InitAR /\ [][NextRS]_vars

\* a page that uses both recorders, each on the sessions it started
NextPage == NextAR \/ NextRS

SpecPage == Init /\ [][NextPage]_vars

\* the server process starting in some environment
InitBoot ==
    /\ PipeInit /\ ConvInit /\ BrowserInit /\ ARInit /\ RSInit /\ DefaultBrowser
    /\ \E env \in Envs : boot = IdleBoot(env)
    /\ PageInit

NextBoot ==
    \/ BootGetConfig /\ UNCHANGED <<pipeVars, convVars, recVars, pageVars>>
    \/ BootWhisperService /\ UNCHANGED <<pipeVars, convVars, recVars, pageVars>>
    \/ BootCleanupService /\ UNCHANGED <<pipeVars, convVars, recVars, pageVars>>
    \/ BootController /\ UNCHANGED <<pipeVars, convVars, recVars, pageVars>>
    \/ BootListen /\ UNCHANGED <<pipeVars, convVars, recVars, pageVars>>

SpecBoot == InitBoot /\ [][NextBoot]_vars

\* one FileUploadService instance
NextFU ==
    \/ FU_ValidateAndSetFile /\ UNCHANGED <<pipeVars, convVars, recVars, boot, tcVars>>
    \/ FU_Reset /\ UNCHANGED <<pipeVars, convVars, recVars, boot, tcVars>>

SpecFU == Init /\ [][NextFU]_vars

\* a page that records with RecordingService, stops and posts the
\* recording (onChooseSpeak, onStopRecording, onProcessAudio); the timer,
\* reset and recorder errors play no part in the type of the blob
NextUpload ==
    \/ RS_StartRecording /\ UNCHANGED <<pipeVars, convVars, arVars, ar_stopSeq, boot, pageVars>>
    \/ RS_GetUserMediaResolve /\ UNCHANGED <<pipeVars, convVars, arVars, ar_stopSeq, boot, pageVars>>
    \/ RS_GetUserMediaReject /\ UNCHANGED <<pipeVars, convVars, arVars, ar_stopSeq, boot, pageVars>>
    \/ RS_StopRecording /\ UNCHANGED <<pipeVars, convVars, arVars, ar_stopSeq, boot, pageVars>>
    \/ RS_OnStart /\ UNCHANGED <<pipeVars, convVars, arVars, ar_stopSeq, boot, pageVars>>
    \/ RS_OnDataAvailable /\ UNCHANGED <<pipeVars, convVars, arVars, ar_stopSeq, boot, pageVars>>
    \/ RS_OnStop /\ UNCHANGED <<pipeVars, convVars, arVars, ar_stopSeq, boot, pageVars>>
    \/ \E k \in Recs : BrowserData(k) /\ UNCHANGED <<arVars, pipeVars, convVars, ar_stopSeq, rsVars, boot, pageVars>>
    \/ UploadRecording /\ UNCHANGED <<recVars, boot, pageVars>>

\* the blob type of RecordingService is the type it chose from the list, so
\* the browsers differ in the types they support only
InitUpload == InitAR /\ hasMediaDevices /\ reportsMime

SpecUpload == InitUpload /\ [][NextUpload]_vars

\* one Transcriber view with its services
NextTC ==
    \/ TC_OnStartClick /\ UNCHANGED <<pipeVars, convVars, recVars, boot, fuVars>>
    \/ TC_OnChooseType /\ UNCHANGED <<pipeVars, convVars, recVars, boot, fuVars>>
    \/ TC_OnChooseUpload /\ UNCHANGED <<pipeVars, convVars, recVars, boot, fuVars>>
    \/ TC_TypeText /\ UNCHANGED <<pipeVars, convVars, recVars, boot, fuVars>>
    \/ TC_OnFileSelected /\ UNCHANGED <<pipeVars, convVars, recVars, boot>>
    \/ TC_OnProcessText /\ UNCHANGED <<pipeVars, convVars, recVars, boot, fuVars>>
    \/ TC_OnProcessUploadedFile /\ UNCHANGED <<pipeVars, convVars, recVars, boot, fuVars>>
    \/ TC_OnTabChange /\ UNCHANGED <<pipeVars, convVars, recVars, boot, fuVars>>
    \/ \E r \in TC_Reqs : TC_HttpNext(r) /\ UNCHANGED <<pipeVars, convVars, recVars, boot, fuVars>>
    \/ \E r \in TC_Reqs : TC_HttpError(r) /\ UNCHANGED <<pipeVars, convVars, recVars, boot, fuVars>>
    \/ \E r \in TC_Reqs : TC_TimeoutNext(r) /\ UNCHANGED <<pipeVars, convVars, recVars, boot, fuVars>>
    \/ \E r \in TC_Reqs : TC_TimeoutError(r) /\ UNCHANGED <<pipeVars, convVars, recVars, boot, fuVars>>
    \/ TC_OnReset /\ UNCHANGED <<pipeVars, convVars, arVars, ar_stopSeq, boot>>

SpecTC == Init /\ [][NextTC]_vars

(***************************************************************************)
(* Properties of the server pipeline                                       *)
(***************************************************************************)
TranscriptFields == {"original", "cleaned", "intelligent"}

IsSuccess(r) == DOMAIN r.body \cap TranscriptFields # {}

AllStagesSucceeded ==
    /\ reqKind = "transcribe" => (conv[1].pc = "resolved" /\ wsvc.st = "returned")
    /\ \A m \in Modes : cu[m].st = "fulfilled"

SomeStageFailed ==
    \/ conv[1].pc = "rejected"
    \/ wsvc.st = "threw"
    \/ \E m \in Modes : cu[m].st = "rejected"

\* C1: in a /transcribe request the POST to the transcription engine is
\* issued only after convertToMp3 has resolved, and a cleanup operation is
\* invoked only after transcribe has returned, with the text it returned.
C1_StagesInDependencyOrder ==
    /\ wsvc.posts > 0 => conv[1].pc = "resolved"
    /\ reqKind = "transcribe" =>
          \A m \in Modes :
             cu[m].st # "none" => (wsvc.st = "returned" /\ cu[m].arg = wsvc.result)

C1_Witness ==
    /\ reqKind = "transcribe"
    /\ wsvc.posts = 1
    /\ cu["cleanup"].st = "inflight"
    /\ cu["intelligent"].st = "fulfilled"

\* C2: a response carries transcript fields only when every stage of the
\* request succeeded; when a stage failed the only response is a 500 whose
\* body has exactly the fields error and message.
C2_NoPartialResults ==
    /\ \A k \in DOMAIN responses :
          IsSuccess(responses[k]) =>
             (AllStagesSucceeded /\ responses[k].status \in {200, 201})
    /\ (pc = "done" /\ SomeStageFailed) =>
          /\ Len(responses) = 1
          /\ responses[1].status = 500
          /\ DOMAIN responses[1].body = {"error", "message"}

C2_Witness ==
    /\ pc = "done"
    /\ reqKind = "transcribe"
    /\ cu["intelligent"].st = "fulfilled"
    /\ cu["cleanup"].st = "rejected"
    /\ settleOrder = <<"intelligent", "cleanup">>

\* C3: when transcribe throws, no cleanup operation is invoked and the
\* response of /transcribe is 500 with error 'Transcription failed' and the
\* thrown error's message.
C3_TranscriptionFailure ==
    wsvc.st = "threw" =>
       /\ \A m \in Modes : cu[m].st = "none"
       /\ pc = "done" =>
             responses = << [status |-> 500,
                             body |-> [error |-> <<"Transcription failed">>,
                                       message |-> wsvc.err]] >>

C3_Witness ==
    /\ pc = "done"
    /\ wsvc.st = "threw"
    /\ wsvc.err = <<"Whisper API error: ", "500", " ", "a">>

\* C31: when convertToMp3 rejects inside transcribe, no POST is issued to
\* the engine, no cleanup operation is invoked, transcribe throws the same
\* error and /transcribe responds 500 with that error's message.
C31_NormalizationFailure ==
    (reqKind = "transcribe" /\ conv[1].pc = "rejected") =>
       /\ wsvc.posts = 0
       /\ \A m \in Modes : cu[m].calls = 0 /\ cu[m].st = "none"
       /\ wsvc.st \in {"converting", "threw"}
       /\ wsvc.st = "threw" => wsvc.err = conv[1].err
       /\ pc = "done" =>
             responses = << [status |-> 500,
                             body |-> [error |-> <<"Transcription failed">>,
                                       message |-> conv[1].err]] >>

C31_Witness ==
    /\ reqKind = "transcribe"
    /\ conv[1].pc = "rejected"
    /\ conv[1].err[1] = "Audio conversion failed: "
    /\ pc = "done"
    /\ Len(responses) = 1

\* C34: a request handled by transcribeAudio or cleanupText has at most one
\* response at any time and exactly one once the handler has finished,
\* whatever the order in which the two cleanup calls settle and whichever
\* of them fail, also when one settles after the response was sent.
C34_ExactlyOneResponse ==
    reqKind \in {"transcribe", "cleanupText"} =>
       /\ Len(responses) <= 1
       /\ pc = "done" <=> Len(responses) = 1
       /\ (\A m \in Modes : cu[m].st \in {"fulfilled", "rejected"}) =>
             pc \in {"cleaning", "done"}

C34_Witness ==
    /\ reqKind = "cleanupText"
    /\ pc = "done"
    /\ Len(responses) = 1
    /\ responses[1].status = 500
    /\ settleOrder = <<"cleanup", "intelligent">>
    /\ cu["cleanup"].st = "rejected"
    /\ cu["intelligent"].st = "rejected"

\* C4: a success response is sent only when both cleanup calls have
\* fulfilled; cleaned is the output of cleanupTranscript, intelligent the
\* output of intelligentCleanup, original the text both were given,
\* whichever of the two completed first.
C4_ResultIndependentOfOrder ==
    \A k \in DOMAIN responses :
       IsSuccess(responses[k]) =>
          /\ \A m \in Modes :
                cu[m].st = "fulfilled" /\ cu[m].arg = responses[k].body.original
          /\ responses[k].body.cleaned = cu["cleanup"].val
          /\ responses[k].body.intelligent = cu["intelligent"].val

C4_Witness ==
    /\ pc = "done"
    /\ Len(responses) = 1
    /\ IsSuccess(responses[1])
    /\ settleOrder = <<"intelligent", "cleanup">>
    /\ cu["cleanup"].val # cu["intelligent"].val

\* C5: the two cleanup calls are invoked together; when one has failed the
\* other, still in flight, can complete; and a request in which either
\* failed is answered with a 500.
C5_CleanupsDoNotInterfere ==
    /\ cu["cleanup"].st = "none" <=> cu["intelligent"].st = "none"
    /\ \A m \in Modes : \A o \in Modes \ {m} :
          (cu[m].st = "rejected" /\ cu[o].st = "inflight") => ENABLED GeminiReply(o)
    /\ (pc = "done" /\ \E m \in Modes : cu[m].st = "rejected") =>
          (Len(responses) = 1 /\ responses[1].status = 500)

C5_Witness ==
    /\ pc = "done"
    /\ cu["cleanup"].st = "rejected"
    /\ cu["intelligent"].st = "fulfilled"
    /\ settleOrder = <<"cleanup", "intelligent">>
    /\ responses[1].status = 500

\* C16: within one request at most one POST is made to the transcription
\* engine and at most one text-generation call is made for each of the two
\* cleanup modes, whether the calls succeed or fail.
C16_NoRetries ==
    /\ wsvc.posts <= 1
    /\ wsvc.probes <= 1
    /\ \A m \in Modes : cu[m].calls <= 1

C16_Witness ==
    /\ pc = "done"
    /\ wsvc.st = "threw"
    /\ wsvc.posts = 1
    /\ ~wsvc.reply[1].transportOk

\* the text transcribe extracts from a reply with a success status
ExtractedText(r) ==
    IF r.ctype = "application/json" /\ ~r.hasText THEN <<>> ELSE r.body

IsBlank(t) == \A i \in 1..Len(t) : t[i] = " "

\* C17: the text transcribe returns is non-empty and neither starts nor
\* ends with whitespace; when the text extracted from a reply with a success
\* status is missing, empty or whitespace-only, transcribe throws 'Empty
\* transcription result from Whisper'.
C17_TrimmedNonEmptyResult ==
    /\ wsvc.st = "returned" =>
          /\ wsvc.result # <<>>
          /\ Head(wsvc.result) # " "
          /\ wsvc.result[Len(wsvc.result)] # " "
    /\ (/\ wsvc.st \in {"returned", "threw"}
        /\ wsvc.reply # <<>>
        /\ wsvc.reply[1].transportOk
        /\ IsOk(wsvc.reply[1].status)
        /\ IsBlank(ExtractedText(wsvc.reply[1]))) =>
          /\ wsvc.st = "threw"
          /\ wsvc.err = <<"Empty transcription result from Whisper">>

C17_Witness ==
    /\ wsvc.st = "returned"
    /\ wsvc.reply[1].body = <<" ", "a">>
    /\ wsvc.result = <<"a">>

\* C18: after a reply with a non-success status transcribe throws an error
\* whose message holds the status code and the response body; after a
\* transport failure it throws the transport error itself.
C18_EngineAndTransportErrors ==
    (wsvc.st = "threw" /\ wsvc.reply # <<>>) =>
       LET r == wsvc.reply[1]
       IN  /\ ~r.transportOk => wsvc.err = r.body
           /\ (r.transportOk /\ ~IsOk(r.status)) =>
                 /\ Len(wsvc.err) = 3 + Len(r.body)
                 /\ wsvc.err[2] = ToString(r.status)
                 /\ SubSeq(wsvc.err, 4, Len(wsvc.err)) = r.body

C18_Witness ==
    /\ wsvc.st = "threw"
    /\ wsvc.reply # <<>>
    /\ ~wsvc.reply[1].transportOk
    /\ wsvc.err = <<"fetch failed">>

\* C19: checkAvailability always returns, never throws, and returns true
\* exactly when the probe completed with status 422.
C19_AvailableIff422 ==
    /\ reqKind = "health" => wsvc.st \in {"probing", "probed"}
    /\ wsvc.st = "probed" =>
          /\ wsvc.avail \in {"true", "false"}
          /\ wsvc.avail = "true" <=>
                (wsvc.reply[1].transportOk /\ wsvc.reply[1].status = 422)

C19_Witness ==
    /\ wsvc.st = "probed"
    /\ wsvc.reply[1].transportOk
    /\ wsvc.reply[1].status = 200
    /\ wsvc.avail = "false"

C21_CleanupResultTrimmedNonEmpty ==
    \A m \in Modes :
       /\ cu[m].st = "fulfilled" =>
             /\ cu[m].val # <<>>
             /\ Head(cu[m].val) # " "
             /\ cu[m].val[Len(cu[m].val)] # " "
             /\ cu[m].val = Trim(cu[m].out[1].text)
       /\ (/\ cu[m].out # <<>>
           /\ cu[m].out[1].engineOk
           /\ IsBlank(cu[m].out[1].text)) => cu[m].st = "rejected"

C21_Witness ==
    /\ cu["cleanup"].st = "fulfilled"
    /\ cu["cleanup"].out[1].text = <<"a", " ">>
    /\ cu["intelligent"].st = "rejected"
    /\ cu["intelligent"].out[1].engineOk
    /\ cu["intelligent"].out[1].text = <<" ">>

\* C22: the error of a failed cleanup call depends on the operation only:
\* an engine-call failure with any message and an empty output give the
\* same message, in which the underlying message does not occur.
C22_CleanupErrorHidesCause ==
    \A m \in Modes :
       cu[m].st = "rejected" =>
          /\ cu[m].err = <<"Failed to ", m, " transcript with Gemini">>
          /\ (pc = "done" /\ pall.reason = cu[m].err) =>
                responses[1].body.message = cu[m].err

C22_Witness ==
    /\ pc = "done"
    /\ cu["cleanup"].st = "rejected"
    /\ ~cu["cleanup"].out[1].engineOk
    /\ cu["cleanup"].out[1].text = <<"a">>
    /\ cu["intelligent"].st = "rejected"
    /\ cu["intelligent"].out[1].engineOk

\* an upload the route must refuse
InvalidUpload(u) ==
    \/ ~u.present
    \/ u.mimetype \notin ALLOWED_AUDIO_TYPES
    \/ u.size < MIN_FILE_SIZE
    \/ u.size > MAX_FILE_SIZE

\* C25: a /transcribe request without file, with a type outside the
\* allow-list, with a file below 1024 bytes or above 100MB is answered 400,
\* and neither convertToMp3 nor the transcription engine nor a cleanup
\* operation is invoked for it.
C25_InvalidUploadsRejected ==
    (reqKind = "transcribe" /\ InvalidUpload(reqFile)) =>
       /\ pc = "done"
       /\ Len(responses) = 1
       /\ responses[1].status = 400
       /\ DOMAIN responses[1].body = {"error"}
       /\ conv[1].pc = "idle"
       /\ wsvc = IdleWhisper
       /\ \A m \in Modes : cu[m] = IdleCleanup

C25_Witness ==
    /\ reqKind = "transcribe"
    /\ pc = "done"
    /\ reqFile.present
    /\ reqFile.mimetype = "audio/webm"
    /\ reqFile.size = MIN_FILE_SIZE - 1
    /\ responses[1].body.error = <<"Audio file is too small or corrupted">>

\* the text of a /cleanup-text request the handler must refuse
BlankBody(b) == b.type # "string" \/ IsBlank(b.val)

\* C26: a /cleanup-text request whose text is missing, not a string, empty
\* or whitespace-only is answered 400 'No text provided or text is empty'
\* and no cleanup operation is invoked.
C26_BlankTextRejected ==
    (reqKind = "cleanupText" /\ BlankBody(reqBody)) =>
       /\ pc = "done"
       /\ responses = << [status |-> 400,
                          body |-> [error |-> <<"No text provided or text is empty">>]] >>
       /\ \A m \in Modes : cu[m] = IdleCleanup

C26_Witness ==
    /\ reqKind = "cleanupText"
    /\ reqBody = [type |-> "string", val |-> <<" ", " ">>]
    /\ pc = "done"

\* C27: a /cleanup-text request never invokes convertToMp3 or the
\* transcription engine; both cleanup operations get the caller's text as
\* sent, and a success response is 200 with original equal to that text.
C27_CleanupTextStartsFromText ==
    reqKind = "cleanupText" =>
       /\ conv[1].pc = "idle"
       /\ wsvc = IdleWhisper
       /\ \A m \in Modes : cu[m].st # "none" => cu[m].arg = reqBody.val
       /\ \A k \in DOMAIN responses :
             IsSuccess(responses[k]) =>
                /\ responses[k].status = 200
                /\ responses[k].body.original = reqBody.val

C27_Witness ==
    /\ reqKind = "cleanupText"
    /\ pc = "done"
    /\ reqBody.val = <<" ", "a">>
    /\ Len(responses) = 1
    /\ responses[1].status = 200
    /\ responses[1].body.original = <<" ", "a">>

\* the key the selected provider requires is missing
RequiredKeyMissing(env) ==
    \/ CleanupProvider(env) = "gemini" /\ env.GEMINI_API_KEY = ""
    \/ CleanupProvider(env) = "openrouter" /\ env.OPENROUTER_API_KEY = ""

\* C28: when the API key of the selected provider, gemini or openrouter, is
\* missing, getConfig throws, no service is ever constructed and the server
\* never listens.
C28_MissingKeyIsFatal ==
    RequiredKeyMissing(boot.env) =>
       /\ boot.pc \in {"start", "crashed"}
       /\ boot.services = {}
       /\ boot.pc = "crashed" => boot.err # <<>>

C28_Witness ==
    /\ boot.pc = "crashed"
    /\ boot.env.CLEANUP_PROVIDER = "openrouter"
    /\ boot.env.GEMINI_API_KEY = "key"
    /\ boot.env.OPENROUTER_API_KEY = ""

\* the cleanup services index can instantiate
CleanupServices == {"GeminiCleanupService", "OpenRouterCleanupService"}

\* C36: for every value of CLEANUP_PROVIDER, when startup gets past
\* getConfig the cleanup service that index instantiates is constructed
\* with a non-empty API key.
C36_CleanupServiceHasKey ==
    boot.services \cap CleanupServices # {} => boot.cleanupKey # ""

(***************************************************************************)
(* Properties of the temporary files                                       *)
(***************************************************************************)
Settled(i) == conv[i].pc \in {"resolved", "rejected"}

Running(i) == conv[i].pc \notin {"idle", "resolved", "rejected"}

PrepError == <<"Failed to prepare audio file for conversion">>

ConversionErrors == {<<"Audio conversion failed: ", msg>> : msg \in FfmpegMsgs}

ReadbackError == <<"Failed to read converted audio file">>

\* C23: an invocation that failed to stage its input never starts the
\* transcoder and rejects with the preparation error; one whose transcoder
\* emitted 'error' rejects with a conversion error holding the tool's
\* message; one whose output could not be read after 'end' rejects with the
\* read-back error; the three errors differ and there is no other rejection.
C23_DistinctConversionErrors ==
    [][\A i \in Convs :
         /\ conv[i].pc = "prepUnlink" => conv'[i].pc \in {"prepUnlink", "rejected"}
         /\ (conv[i].pc # "rejected" /\ conv'[i].pc = "rejected") =>
               \/ conv[i].pc = "prepUnlink" /\ conv'[i].err = PrepError
               \/ conv[i].pc = "errUnlinkOut" /\ conv'[i].err \in ConversionErrors
               \/ conv[i].pc = "rdUnlinkOut" /\ conv'[i].err = ReadbackError
         /\ conv'[i].pc = "prepUnlink" => conv[i].pc \in {"writing", "prepUnlink"}
         /\ conv'[i].pc = "errUnlinkOut" =>
               conv[i].pc \in {"errUnlinkIn", "errUnlinkOut"}
         /\ conv'[i].pc = "errUnlinkIn" =>
               conv[i].pc \in {"transcoding", "errUnlinkIn"}
         /\ conv'[i].pc = "rdUnlinkOut" =>
               conv[i].pc \in {"rdUnlinkIn", "rdUnlinkOut"}
         /\ conv'[i].pc = "rdUnlinkIn" => conv[i].pc \in {"reading", "rdUnlinkIn"}
         /\ conv'[i].pc = "reading" => conv[i].pc \in {"transcoding", "reading"}
         /\ PrepError \notin ConversionErrors
         /\ ReadbackError \notin ConversionErrors
         /\ PrepError # ReadbackError]_vars

C23_Witness ==
    /\ conv[1].pc = "rejected"
    /\ conv[1].err = ReadbackError
    /\ conv[2].pc = "rejected"
    /\ conv[2].err = PrepError

\* the last n characters of a name
Suffix(name, n) ==
    IF Len(name) < n THEN name ELSE SubSeq(name, Len(name) - n + 1, Len(name))

\* C24: the audio a successful convertToMp3 returns has mimetype
\* 'audio/mpeg' and a filename that ends in '.mp3'.
C24_AlwaysMp3 ==
    \A i \in Convs :
       conv[i].pc = "resolved" =>
          /\ ConvertedAudio(i).mimetype = "audio/mpeg"
          /\ Suffix(ConvertedAudio(i).originalname, 4) = <<".", "m", "p", "3">>

\* C7: two concurrent convertToMp3 invocations never use the same temporary
\* input or output path, and neither reads, overwrites or deletes a file
\* written by the other.
C7_TempFilesPrivate ==
    /\ ~interfered
    /\ \A i \in Convs : \A j \in Convs \ {i} :
          (Running(i) /\ Running(j)) =>
             (conv[i].inPath # conv[j].inPath /\ conv[i].outPath # conv[j].outPath)

(***************************************************************************)
(* Properties of the recorder                                              *)
(***************************************************************************)
NonEmpty(c) == c.size > 0

\* C8: at most one MediaRecorder is recording from a live microphone stream
\* into the instance's chunk list at any time.
C8_AtMostOneSession ==
    Cardinality({k \in Recs : rstate[k] = "recording" /\ sstate[k] = "live"}) <= 1

\* C9: a chunk is appended to the chunk list only while the state signal
\* is RECORDING.
C9_ChunksOnlyWhileRecording ==
    [][Len(ar_audioChunks') > Len(ar_audioChunks) => ar_state = "recording"]_vars

\* C10: the blob a stopRecording promise resolves with is the in-order
\* concatenation of the non-empty blobs that session's recorder delivered.
C10_BlobIsSessionChunks ==
    \A k \in Recs :
       ar_promise[k] = "resolved" =>
          ar_blob[k].chunks = SelectSeq(delivered[k], NonEmpty)

\* a session of the instance is active: its recorder exists and is recording
AR_SessionActive == ar_mediaRecorder # 0 /\ rstate[ar_mediaRecorder] = "recording"

RS_SessionActive == rs_mediaRecorder # 0 /\ rstate[rs_mediaRecorder] = "recording"

\* every recorder of the page has finished and nothing is left to dispatch
RecordersQuiet ==
    /\ evq = <<>>
    /\ rs_pending = 0
    /\ \A k \in Recs : rstate[k] # "recording"

\* C11: when reset() was the last call on the RecordingService and every
\* pending recorder event has been delivered, audioBlob is null, audioUrl is
\* '', recordingTime is 0, the chunk list is empty and no timer is running.
C11_ResetClearsState ==
    (rs_lastOp = "reset" /\ RecordersQuiet) =>
       /\ rs_audioBlob = <<>>
       /\ rs_audioUrl = 0
       /\ rs_recordingTime = 0
       /\ rs_audioChunks = <<>>
       /\ rs_timerInterval = 0
       /\ intervals = {}

\* C12: when reset() returns, no object URL created for a recorded blob is
\* left unrevoked.
C12_ResetReleasesUrls ==
    [][(rs_opSeq' # rs_opSeq /\ rs_lastOp' = "reset") => urls' = {}]_vars

\* C13: a stopRecording() call made while no session is active returns null
\* (AudioRecorder) or nothing (RecordingService) and changes nothing: no
\* stop() on a recorder, no event queued, no error recorded, state signal,
\* chunk list, blob and timer as before.
C13_StopWhenIdleIsNoop ==
    [][/\ (ar_stopSeq' # ar_stopSeq /\ ~AR_SessionActive) =>
            /\ ar_ret' = "null"
            /\ UNCHANGED <<browserVars, ar_mediaRecorder, ar_audioChunks, ar_stream,
                           ar_state, ar_error, ar_promise, ar_blob>>
       /\ (rs_opSeq' # rs_opSeq /\ rs_lastOp' = "stop" /\ ~RS_SessionActive) =>
            UNCHANGED <<browserVars, rs_mediaRecorder, rs_audioChunks,
                        rs_timerInterval, rs_recordingTime, rs_audioBlob,
                        rs_audioUrl, rs_error, intervals, urls>>]_vars

C13_Witness ==
    /\ ar_mediaRecorder # 0
    /\ ar_promise[ar_mediaRecorder] = "resolved"
    /\ ar_ret = "null"
    /\ rs_mediaRecorder = 0
    /\ rs_lastOp = "stop"

\* C14: right after startRecording has set up a recorder, stopRecording does
\* not return null; the blob its promise resolves with has the type the
\* recorder reports, or 'audio/webm' when the recorder reports none.
C14_StartThenStopYieldsTypedBlob ==
    /\ [][ar_mediaRecorder' # ar_mediaRecorder => AR_SessionActive']_vars
    /\ [](\A k \in Recs :
            ar_promise[k] = "resolved" =>
               ar_blob[k].type = IF rmime[k] # NoMime THEN rmime[k] ELSE "audio/webm")

C14_Witness ==
    /\ ar_calls = 1
    /\ ar_promise[1] = "resolved"
    /\ Len(delivered[1]) = 1
    /\ rmime[1] = "audio/ogg;codecs=opus"
    /\ ar_blob[1].type = "audio/ogg;codecs=opus"

\* C15: when the promise of an AudioRecorder stopRecording resolves, the
\* tracks of the stream acquired for that session are stopped and the state
\* signal is IDLE; when the stop handler of a RecordingService recorder has
\* run, the tracks of that recorder's stream are stopped.
C15_StopReleasesDevice ==
    [][\A k \in Recs :
         /\ (ar_promise[k] # "resolved" /\ ar_promise'[k] = "resolved") =>
               (sstate'[k] = "stopped" /\ ar_state' = "idle")
         /\ (k \notin urls /\ k \in urls') => sstate'[k] = "stopped"]_vars

\* this step dispatches an event of the given type
Dispatched(type) ==
    /\ NextEvent(type)
    /\ Len(evq') >= Len(evq) - 1
    /\ SubSeq(evq', 1, Len(evq) - 1) = Tail(evq)
    /\ ~(Len(evq') >= Len(evq) /\ SubSeq(evq', 1, Len(evq)) = evq)

\* C29: the state signal of AudioRecorder is IDLE or RECORDING, never
\* PAUSED; it becomes RECORDING in exactly the steps that deliver a start
\* event, so not when startRecording returns; a delivered stop event leaves
\* it IDLE and nothing else makes it IDLE; it is IDLE when a stopRecording
\* promise resolves.
C29_StateMachine ==
    /\ [](ar_state \in {"idle", "recording"})
    /\ [][/\ (ar_state # "recording" /\ ar_state' = "recording") => Dispatched("start")
          /\ Dispatched("start") => ar_state' = "recording"
          /\ (ar_state # "idle" /\ ar_state' = "idle") => Dispatched("stop")
          /\ Dispatched("stop") => ar_state' = "idle"
          /\ ar_mediaRecorder' # ar_mediaRecorder => ar_state' = ar_state
          /\ \A k \in Recs :
                (ar_promise[k] # "resolved" /\ ar_promise'[k] = "resolved") =>
                   ar_state' = "idle"]_vars

C29_Witness ==
    /\ ar_calls = 1
    /\ ar_mediaRecorder = 1
    /\ ar_state = "idle"
    /\ ar_promise[1] = "resolved"
    /\ Len(delivered[1]) = 2
    /\ evq = <<>>

\* the stop event of RecordingService recorder k has been handled
RS_StopHandled(k) == k \in urls

\* C30: at most one interval timer is active; recordingTime is 0 when a
\* session starts; it is incremented only by the timer of a session whose
\* stop event has not been handled; and it decreases only when no session
\* started earlier is recording.
C30_TimerFollowsSession ==
    /\ [](Cardinality(intervals) <= 1)
    /\ [][/\ rs_mediaRecorder' # rs_mediaRecorder => rs_recordingTime' = 0
          /\ rs_recordingTime' > rs_recordingTime =>
                \E k \in intervals : k \in rs_recorders /\ ~RS_StopHandled(k)
          /\ rs_recordingTime' < rs_recordingTime =>
                \A k \in rs_recorders : rstate'[k] # "recording"]_vars

(***************************************************************************)
(* Properties of the page                                                  *)
(***************************************************************************)
\* this step is a call of validateAndSetFile
FU_Called == fu_last' # fu_last \/ fu_created' # fu_created

\* C32: validateAndSetFile returns null exactly for a file whose type is in
\* the allow-list and whose size is at most 100MB; a rejected call returns
\* an error, creates no object URL and leaves uploadedFile and
\* uploadedFileUrl as they were.
C32_ValidateAndSetFile ==
    [][(fu_last'.called /\ FU_Called) =>
         /\ fu_last'.ret = <<>> <=>
               /\ fu_last'.file.type \in FU_ALLOWED_AUDIO_TYPES
               /\ fu_last'.file.size <= 100 * 1024 * 1024
         /\ fu_last'.ret = <<>> =>
               /\ fu_uploadedFile' = <<fu_last'.file>>
               /\ fu_uploadedFileUrl' \notin fu_urls \cup {0}
         /\ fu_last'.ret # <<>> =>
               /\ Len(fu_last'.ret[1]) > 0
               /\ UNCHANGED <<fu_uploadedFile, fu_uploadedFileUrl, fu_created, fu_urls>>]_vars

C32_Witness ==
    /\ fu_last.called
    /\ fu_last.ret # <<>>
    /\ fu_uploadedFile # <<>>
    /\ fu_uploadedFile[1].size = 100 * 1024 * 1024
    /\ fu_uploadedFileUrl \in fu_urls

(***************************************************************************)
(* Properties of the recorder: errors                                      *)
(***************************************************************************)
\* the error signal holds a recorder error
AR_Errored == ar_error # <<>> /\ ar_error[1] = "Recording error: "

\* C33: an error event delivered to AudioRecorder sets the error signal to
\* 'Recording error: <message>'; once the events of the failed recorder
\* are delivered the state is IDLE, the tracks of the stream are stopped
\* and the chunk list is empty; a later startRecording that gets past the
\* API check clears the error signal.
C33_ErrorStopsSession ==
    /\ [][(AR_NextEvent("error") /\ Dispatched("error")) => AR_Errored']_vars
    /\ []((AR_Errored /\ evq = <<>> /\ \A k \in Recs : rstate[k] # "recording") =>
            /\ ar_state = "idle"
            /\ ar_stream # 0 /\ sstate[ar_stream] = "stopped"
            /\ ar_audioChunks = <<>>)
    /\ [][(ar_calls' # ar_calls /\ hasMediaDevices) => ar_error' = <<>>]_vars

\* startRecording acquired stream k and failed before starting a recorder
StartFailedHolding(k) == sstate[k] # "none" /\ rstate[k] = "none"

\* C35: a startRecording call that fails after the microphone stream was
\* acquired does not leave the device held: the tracks of a stream on which
\* no recorder was started are stopped.
C35_FailedStartReleasesDevice ==
    \A k \in Recs : StartFailedHolding(k) => sstate[k] = "stopped"

(***************************************************************************)
(* Properties of the view                                                  *)
(***************************************************************************)
\* this step is a call of onReset: it calls recordingService.reset()
TC_ResetStep == rs_opSeq' # rs_opSeq /\ rs_lastOp' = "reset"

\* this step runs the callback of a request started before a reset
TC_StaleCallback ==
    \E r \in TC_Reqs : /\ tc_reqs[r].stale
                        /\ tc_reqs[r].st \in {"timerNext", "timerError"}
                        /\ tc_reqs'[r].st = "done"

\* C37: onReset leaves the view in START with inputText, outputText and
\* intelligentText empty and isProcessing false, and no callback of a
\* request started before the reset changes any of them afterwards.
C37_ResetIsFinal ==
    /\ [][TC_ResetStep =>
           /\ tc_currentState' = "start"
           /\ tc_inputText' = <<>> /\ tc_outputText' = <<>> /\ tc_intelligentText' = <<>>
           /\ tc_isProcessing' = FALSE]_vars
    /\ [][TC_StaleCallback =>
           UNCHANGED <<tc_inputText, tc_outputText, tc_intelligentText,
                       tc_isProcessing>>]_vars

\* a stop event of recorder k is waiting to be delivered
StopQueued(k) == \E i \in 1..Len(evq) : evq[i].type = "stop" /\ evq[i].rec = k

\* C38: a promise returned by stopRecording for an active session is
\* pending only while the stop event of its recorder is queued with the
\* resolving handler installed, and the delivery of that stop event
\* resolves it, whatever stopRecording calls and error events interleave.
C38_StopPromiseResolves ==
    /\ [](\A k \in Recs : ar_promise[k] = "pending" =>
                             onstopH[k] = "resolver" /\ StopQueued(k))
    /\ [][\A k \in Recs :
            (/\ ar_promise[k] = "pending"
             /\ Head(evq).rec = k
             /\ Dispatched("stop")) => ar_promise'[k] = "resolved"]_vars

C38_Witness ==
    /\ AR_Errored
    /\ \E k \in Recs : ar_promise[k] = "resolved" /\ Len(ar_blob[k].chunks) > 0
    /\ evq = <<>>

(***************************************************************************)
(* Properties of the recording sent to the server                          *)
(***************************************************************************)
InvalidTypeError == <<"Invalid file type. Allowed types: ", "audio/wav, ...">>

====
